---- MODULE Spec2Model ----
(***************************************************************************)
(* lib_core::tty::Executor (src/lib_core/src/tty/executor.rs): running a   *)
(* child process under an IOMode, collecting its output, and tracking the  *)
(* background children until resolve_background_processes reaps them.      *)
(*                                                                         *)
(* Text is modelled as sequences of Unicode code points, the bytes a child *)
(* writes as sequences of byte values; String::from_utf8_lossy and         *)
(* str::trim are computed on these.  The child process and the operating   *)
(* system are the environment: the child writes and exits on its own, a    *)
(* read returns any non-empty prefix of what is in the pipe, and read and  *)
(* wait can fail with an OS error.                                         *)
(***************************************************************************)
EXTENDS Integers, Sequences, FiniteSets, TLC

\* ------------------------------------------------------------------ bounds
\* Most bytes one foreground child writes (stdout and stderr together).
MaxWrites == 2

\* Capacity of an OS pipe, in bytes.
PipeCap == 2

\* Most children in the background-process list at one time.
MaxBackground == 2

\* ------------------------------------------------------- program constants
\* let mut buffer = [0; 1024];
BufLen == 1024

\* U+FFFD, what String::from_utf8_lossy puts in place of a malformed sequence.
REPLACEMENT == 65533

\* --------------------------------------------------------------- alphabets
IOModes == {"Attach", "StreamOutput", "Silent", "Mute"}

Streams == {"stdout", "stderr"}

\* The bytes a child may write: space, 'a', and the two bytes of U+00E9.
ChildBytes == {32, 97, 195, 169}

\* Program names, as text: "sh", "zz", and variants with blanks around them.
SH == <<115, 104>>

ZZ == <<122, 122>>

\* What is found on PATH.
Installed == {SH}

Commands == {SH, ZZ}

ProgramNames == {<< >>, <<32>>, SH, <<32>> \o SH \o <<32>>, ZZ}

\* Directory arguments: none (Option::None), a symbolic link to an existing
\* directory, and a path that does not exist.
NoDir == "None"

CurrentDir == "/cwd"

DirArgs == {NoDir, "/link", "/missing"}

\* ------------------------------------------------------------ exit status
\* std::process::ExitStatus: a normal exit with a code, or death by signal.
Exited(c) == [code |-> c, signal |-> 0]

Signaled(s) == [code |-> -1, signal |-> s]

NoStatus == [code |-> -1, signal |-> 0]

ExitStatuses == {Exited(0), Exited(1), Exited(2), Signaled(9)}

\* A death by signal taken for success, as code().unwrap_or_default() does.
success_by_code(status) == (IF status.signal = 0 THEN status.code ELSE 0) = 0

\* ExitStatus::success()
success(status) == status.signal = 0 /\ status.code = 0

\* code() taken without the default for a death by signal.
code_unwrapped(status) == status.code

\* ExitStatus::code().unwrap_or_default()
code_or_default(status) == IF status.signal = 0 THEN status.code ELSE 0

\* ----------------------------------------------------------------- results
Ok(v) == [kind |-> "Ok", value |-> v, status |-> NoStatus]

Err(k, st, out) == [kind |-> k, value |-> out, status |-> st]

IOError == Err("IOError", NoStatus, << >>)

TtyExecuteError == Err("TtyExecuteError", NoStatus, << >>)

TtyCommandFailed(status, output) == Err("TtyCommandFailed", status, output)

TtyBackgroundCommandFailed(status) == Err("TtyBackgroundCommandFailed", status, << >>)

TtyRequiredCommandMissing(command) == Err("TtyRequiredCommandMissing", NoStatus, command)

Pending == [kind |-> "Pending", value |-> << >>, status |-> NoStatus]

\* -------------------------------------------------------------- conversions
Min(a, b) == IF a < b THEN a ELSE b

\* String::from_utf8_lossy on a byte slice: ASCII and well-formed two-byte
\* sequences decode, every other byte becomes U+FFFD.
RECURSIVE from_utf8_lossy(_)
from_utf8_lossy(b) ==
    IF b = << >> THEN << >>
    ELSE IF Head(b) < 128 THEN <<Head(b)>> \o from_utf8_lossy(Tail(b))
    ELSE IF /\ Head(b) \in 194..223
            /\ Len(b) >= 2
            /\ b[2] \in 128..191
         THEN <<(Head(b) - 192) * 64 + (b[2] - 128)>> \o from_utf8_lossy(Tail(Tail(b)))
    ELSE <<REPLACEMENT>> \o from_utf8_lossy(Tail(b))

\* char::is_whitespace
is_whitespace(c) == c \in {9, 10, 11, 12, 13, 32, 133, 160}

RECURSIVE trim_start(_)
trim_start(s) ==
    IF s # << >> /\ is_whitespace(Head(s)) THEN trim_start(Tail(s)) ELSE s

RECURSIVE trim_end(_)
trim_end(s) ==
    IF s # << >> /\ is_whitespace(s[Len(s)])
    THEN trim_end(SubSeq(s, 1, Len(s) - 1))
    ELSE s

\* str::trim
trim(s) == trim_end(trim_start(s))

\* A path that does not resolve replaced by the current directory.
canonicalize_or_cwd(p) ==
    CASE p = "/work" -> [ok |-> TRUE, path |-> "/work"]
      [] p = "/link" -> [ok |-> TRUE, path |-> "/work"]
      [] OTHER       -> [ok |-> TRUE, path |-> CurrentDir]

\* fs::canonicalize: the absolute path with links resolved, or an error.
canonicalize(p) ==
    CASE p = "."     -> [ok |-> TRUE, path |-> CurrentDir]
      [] p = "/work" -> [ok |-> TRUE, path |-> "/work"]
      [] p = "/link" -> [ok |-> TRUE, path |-> "/work"]
      [] OTHER       -> [ok |-> FALSE, path |-> ""]

\* ---------------------------------------------------------------- the state
VARIABLES
    background_processes, \* Executor.background_processes
    processes,            \* resolve_background_processes: the drained children still to visit
    pc,                   \* where the executor's caller is
    call,                 \* the operation in progress or last returned, with its arguments
    result,               \* what the last operation returned
    child,                \* the foreground child of execute
    pipe_out,             \* bytes in the child's stdout pipe
    pipe_err,             \* bytes in the child's stderr pipe
    collected_output,     \* execute: collected_output
    echoed,               \* what execute printed: [stdout |-> ..., stderr |-> ...]
    written,              \* every byte the foreground child wrote, in order, with its stream
    read_failed,          \* a read of a pipe returned Err and the loop was left
    polled,               \* resolve_background_processes: the children visited so far
    registered,           \* successful execute_background calls since the last resolve
    script,               \* the writes the foreground command still has to do, or Free
    file,                 \* with_tmp_edits_to_file: the file at path
    backup,               \* with_tmp_edits_to_file: the file at backup_path
    edit_pc,              \* with_tmp_edits_to_file: where the call is
    edit_call,            \* with_tmp_edits_to_file: the original contents and the edit
    edit_result,          \* with_tmp_edits_to_file: what the call returned
    op_saw,               \* with_tmp_edits_to_file: the file at path when op ran
    iam_keys,             \* IAM: the access keys of the user
    iam_pc,               \* create_access_key_for_user: where the call is
    iam_call,             \* create_access_key_for_user: rotation, and the keys at the call
    existing_keys,        \* create_access_key_for_user: existing_keys
    pending_deletes,      \* create_access_key_for_user: the ids the running loop still deletes
    iam_result,           \* create_access_key_for_user: what the call returned
    iam_deleted,          \* create_access_key_for_user: the keys the call deleted
    close_final,          \* Tty::close: the final_result it was given
    close_report,         \* Tty::close: what it printed
    exit_status,          \* the process: running, or ended by std::process::exit
    previous,             \* the execute_with_options call whose outcome is kept for comparison
    umount_pc,            \* where umount stands: idle, umount, sudo
    umount_call,          \* the sudo_fallback argument of the umount call
    attempts,             \* the commands umount has run, with what execute returned
    umount_result,        \* what umount returned
    prefs_files,          \* the preference files on disk, by path
    prefs_pc,             \* where UserPreferences::new stands: idle, get_preferences, aborted
    prefs_path,           \* the path argument of the get_preferences call in progress
    prefs_depth,          \* the get_preferences calls on the stack
    preferences,          \* UserPreferences.preferences.scripts
    preferences_path,     \* UserPreferences.preferences_path
    script_name,          \* UserPreferences.script_name
    prefs_call,           \* the last call of new or set_pref
    prefs_got,            \* the last get_pref since, with what it returned
    prefs_result,         \* what new or set_pref returned
    resolv_conf,          \* /etc/resolv.conf: its lines, or Unreadable
    dns_pc,               \* where query stands: idle, loop
    dns_call,             \* the address and record type of the query call
    nameservers,          \* the nameservers the loop has not come to yet
    tried,                \* the nameservers the loop has come to, with what each answered
    last_error,           \* last_error of query
    dns_result,           \* what query returned
    acm_call,             \* a certificate name and the domain asked for, as given
    acm_result            \* the two normalized names and what wildcard_matches said

executor_vars == <<background_processes, processes, pc, call, result, child,
                   pipe_out, pipe_err, collected_output, echoed, written,
                   read_failed, polled, registered, script>>

edit_vars == <<file, backup, edit_pc, edit_call, edit_result, op_saw>>

iam_vars == <<iam_keys, iam_pc, iam_call, existing_keys, pending_deletes,
              iam_result, iam_deleted>>

close_vars == <<close_final, close_report, exit_status>>

pair_vars == <<previous>>

umount_vars == <<umount_pc, umount_call, attempts, umount_result>>

prefs_vars == <<prefs_files, prefs_pc, prefs_path, prefs_depth, preferences,
                preferences_path, script_name, prefs_call, prefs_got,
                prefs_result>>

dns_vars == <<resolv_conf, dns_pc, dns_call, nameservers, tried, last_error,
              dns_result>>

acm_vars == <<acm_call, acm_result>>

ext_vars == <<edit_vars, iam_vars, close_vars, pair_vars, umount_vars,
              prefs_vars, dns_vars, acm_vars>>

\* What the steps of with_tmp_edits_to_file leave alone, and what those of
\* create_access_key_for_user leave alone.
edit_frame == <<executor_vars, iam_vars, close_vars, pair_vars, umount_vars,
                prefs_vars, dns_vars, acm_vars>>

iam_frame == <<executor_vars, edit_vars, close_vars, pair_vars, umount_vars,
               prefs_vars, dns_vars, acm_vars>>

close_frame == <<executor_vars, edit_vars, iam_vars, pair_vars, umount_vars,
                 prefs_vars, dns_vars, acm_vars>>

pair_frame == <<executor_vars, edit_vars, iam_vars, close_vars, umount_vars,
                prefs_vars, dns_vars, acm_vars>>

umount_frame == <<executor_vars, edit_vars, iam_vars, close_vars, pair_vars,
                  prefs_vars, dns_vars, acm_vars>>

prefs_frame == <<executor_vars, edit_vars, iam_vars, close_vars, pair_vars,
                 umount_vars, dns_vars, acm_vars>>

dns_frame == <<executor_vars, edit_vars, iam_vars, close_vars, pair_vars,
               umount_vars, prefs_vars, acm_vars>>

acm_frame == <<executor_vars, edit_vars, iam_vars, close_vars, pair_vars,
               umount_vars, prefs_vars, dns_vars>>

vars == <<executor_vars, ext_vars>>

bg_vars == <<background_processes, processes, polled, registered>>

list_vars == <<background_processes, registered>>

fg_vars == <<child, pipe_out, pipe_err, collected_output, echoed, written, read_failed>>

NoChild == [state |-> "none", status |-> NoStatus, cwd |-> "",
            stdin |-> "null", stdout |-> "null", stderr |-> "null"]

NoCall == [op |-> "new", io_mode |-> "Attach", dir |-> NoDir, command |-> << >>,
           lookup |-> "none"]

NoEcho == [stdout |-> << >>, stderr |-> << >>]

\* A command that writes what it likes.
Free == <<"any">>

\* A file that does not exist.
Absent == [exists |-> FALSE, text |-> << >>]

NoEditCall == [original |-> Absent, edit |-> "none"]

NoEditResult == [kind |-> "Pending", from |-> "none"]

NoIamCall == [rotation |-> "none", keys |-> << >>]

NoIamResult == [kind |-> "Pending", key |-> 0, key_count |-> 0]

\* Executor::new
InitExecutor ==
    /\ background_processes = << >>
    /\ processes = << >>
    /\ pc = "idle"
    /\ call = NoCall
    /\ result = Pending
    /\ child = NoChild
    /\ pipe_out = << >>
    /\ pipe_err = << >>
    /\ collected_output = << >>
    /\ echoed = NoEcho
    /\ written = << >>
    /\ read_failed = FALSE
    /\ polled = << >>
    /\ registered = 0

\* No call of with_tmp_edits_to_file made yet, and no file at path.
InitEdit ==
    /\ file = Absent
    /\ backup = Absent
    /\ edit_pc = "idle"
    /\ edit_call = NoEditCall
    /\ edit_result = NoEditResult
    /\ op_saw = Absent

\* No call of create_access_key_for_user made yet, and a user without keys.
InitIam ==
    /\ iam_keys = << >>
    /\ iam_pc = "idle"
    /\ iam_call = NoIamCall
    /\ existing_keys = << >>
    /\ pending_deletes = << >>
    /\ iam_result = NoIamResult
    /\ iam_deleted = << >>

\* Tty::close not called yet.
InitClose ==
    /\ close_final = Pending
    /\ close_report = "none"
    /\ exit_status = "running"

\* No call of execute kept for comparison.
NoRun == [io_mode |-> "none", written |-> << >>, status |-> NoStatus,
          result |-> Pending, echoed |-> NoEcho]

\* No execute remembered yet.
InitPair == previous = NoRun

\* No call of umount yet.
NoUmountCall == [called |-> FALSE, sudo_fallback |-> FALSE]

InitUmount ==
    /\ umount_pc = "idle"
    /\ umount_call = NoUmountCall
    /\ attempts = << >>
    /\ umount_result = Pending

\* ----------------------------------------------------- UserPreferences data
\* Script names, preference keys, and the Rust types and values of
\* set_pref::<T> and get_pref::<T>.
ScriptNames == {"deploy", "build"}

PrefKeys == {"region", "stage"}

PrefTypes == {"String", "i64"}

PrefValues == {[type |-> "String", text |-> "eu"], [type |-> "i64", text |-> "7"]}

\* Option::None
NoneValue == [type |-> "None", text |-> ""]

\* HashMap::new()
EmptyMap == [x \in {} |-> x]

\* The scripts maps found in preference files.
FileStores ==
    { EmptyMap,
      [s \in {"deploy"} |-> [k \in {"region"} |-> [tag |-> "String", text |-> "eu"]]],
      [s \in ScriptNames |-> [k \in {"stage"} |-> [tag |-> "Number", text |-> "7"]]] }

\* The paths of preference files, and the paths new is called with.
Paths == {"/home/prefs", "/etc/prefs"}

PathArgs == {"~/prefs", "/etc/prefs"}

\* What is at a path: nothing, a file that cannot be read as text, a file
\* that starts with "redirect: ", a file that is not the YAML of a
\* PreferencesFileContent, or one that is.
Missing == [kind |-> "missing", target |-> "", scripts |-> EmptyMap]

Unreadable == [kind |-> "unreadable", target |-> "", scripts |-> EmptyMap]

Redirect(t) == [kind |-> "redirect", target |-> t, scripts |-> EmptyMap]

InvalidYaml == [kind |-> "invalid", target |-> "", scripts |-> EmptyMap]

Yaml(scripts) == [kind |-> "yaml", target |-> "", scripts |-> scripts]

Contents ==
    {Missing, Unreadable, InvalidYaml}
    \cup {Redirect(t) : t \in Paths}
    \cup {Yaml(s) : s \in FileStores}

Arrangements == [Paths -> Contents]

\* The arrangements without a redirect: one file, or none.
PlainArrangements ==
    {[p \in Paths |-> IF p = "/etc/prefs" THEN c ELSE Missing] :
        c \in {Missing} \cup {Yaml(s) : s \in FileStores}}

NoPrefsCall == [op |-> "none", path |-> "", name |-> "", key |-> "", value |-> NoneValue]

NoGot == [key |-> "", type |-> "", value |-> NoneValue]

InvalidUserPreferencesFile == Err("InvalidUserPreferencesFile", NoStatus, << >>)

InitPrefs ==
    /\ prefs_files = [p \in Paths |-> Missing]
    /\ prefs_pc = "idle"
    /\ prefs_path = ""
    /\ prefs_depth = 0
    /\ preferences = EmptyMap
    /\ preferences_path = ""
    /\ script_name = ""
    /\ prefs_call = NoPrefsCall
    /\ prefs_got = NoGot
    /\ prefs_result = Pending

\* ------------------------------------------------------------- dns data
\* const FALLBACK_NAME_SERVER: &str = "8.8.8.8"
FALLBACK_NAME_SERVER == "8.8.8.8"

\* const DNS_PORT: u16 = 53
DNS_PORT == 53

\* The nameserver strings that parse as an IpAddr.
IpAddresses == {"1.1.1.1", "9.9.9.9", FALLBACK_NAME_SERVER}

\* Most lines of /etc/resolv.conf.
MaxLines == 2

\* The lines of /etc/resolv.conf, trimmed and split into words: an empty
\* line, a comment, nameserver lines with an IP address, with a host name and
\* with nothing, and a line of another kind.
ResolvLines ==
    { << >>,
      <<"#", "nameserver", "1.1.1.1">>,
      <<"nameserver", "1.1.1.1">>,
      <<"nameserver", "dns.local", "9.9.9.9">>,
      <<"nameserver">>,
      <<"search", "lan">> }

\* /etc/resolv.conf: a file that cannot be read, or its lines.
NoResolvConf == [readable |-> FALSE, lines |-> << >>]

ResolvFiles ==
    {NoResolvConf}
    \cup {[readable |-> TRUE, lines |-> l] :
             l \in UNION {[1..n -> ResolvLines] : n \in 0..MaxLines}}

\* The names asked for: one that parses as a DNS name and one that does not.
Addresses == {"example.com", "bad..name"}

RecordTypes == {"A", "CNAME"}

\* The records of a response, and the responses: up to two answers, with
\* the header's authoritative bit.
Records == {[rtype |-> "A", data |-> "10.0.0.1"],
            [rtype |-> "A", data |-> "10.0.0.2"],
            [rtype |-> "CNAME", data |-> "alias.example.com."]}

AnswerLists == UNION {[1..n -> Records] : n \in 0..2}

Responses ==
    {[kind |-> "response", answers |-> a, authoritative |-> b] :
        a \in AnswerLists, b \in BOOLEAN}

ConnectFailed == [kind |-> "connect_failed", answers |-> << >>, authoritative |-> FALSE]

QueryFailed == [kind |-> "query_failed", answers |-> << >>, authoritative |-> FALSE]

ParseFailed == [kind |-> "parse_failed", answers |-> << >>, authoritative |-> FALSE]

DnsOk(value) == [kind |-> "Ok", details |-> value]

DnsConnectionError(details) == [kind |-> "DnsConnectionError", details |-> details]

InvalidDnsRequest == [kind |-> "InvalidDnsRequest", details |-> "could not parse address"]

DnsRecordNotFound(rtype) == [kind |-> "DnsRecordNotFound", details |-> rtype]

NoDnsResult == [kind |-> "Pending", details |-> ""]

NoDnsCall == [address |-> "", record_type |-> ""]

InitDns ==
    /\ resolv_conf = NoResolvConf
    /\ dns_pc = "idle"
    /\ dns_call = NoDnsCall
    /\ nameservers = << >>
    /\ tried = << >>
    /\ last_error = NoDnsResult
    /\ dns_result = NoDnsResult

\* --------------------------------------------------------------- acm data
\* Most characters of a certificate name or a domain.
MaxName == 3

\* The characters of certificate names: '*', '.', 'a', 'b'; and of the
\* domains asked for: '.', 'a', 'B'.
NameChars == {42, 46, 97, 98}

DomainChars == {46, 97, 66}

CertificateNames == UNION {[1..n -> NameChars] : n \in 0..MaxName}

Domains == UNION {[1..n -> DomainChars] : n \in 0..MaxName}

NoAcmCall == [called |-> FALSE, name |-> << >>, domain |-> << >>]

NoAcmResult == [done |-> FALSE, candidate |-> << >>, target |-> << >>,
                matches |-> FALSE]

InitAcm ==
    /\ acm_call = NoAcmCall
    /\ acm_result = NoAcmResult

Init == InitExecutor /\ script = Free /\ InitEdit /\ InitIam /\ InitClose /\ InitPair
        /\ InitAcm
        /\ InitDns
        /\ InitPrefs
        /\ InitUmount

\* -------------------------------------------------------------- execute
ExecuteOps == {"execute_with_options", "execute_with_options_sync"}

\* Every mode treated as one that captures.
CapturesAll(io_mode) == TRUE

\* The modes whose output is captured: the arms StreamOutput | Silent | Mute
\* of the stdio matches, and the test io_mode != IOMode::Attach.
Captures(io_mode) == io_mode # "Attach"

\* stdin left inherited in every mode.
StdioInheritStdin(io_mode) ==
    IF Captures(io_mode)
    THEN [stdin |-> "inherit", stdout |-> "piped", stderr |-> "piped"]
    ELSE [stdin |-> "inherit", stdout |-> "inherit", stderr |-> "inherit"]

\* .stdin(..) .stdout(..) .stderr(..)
StdioFor(io_mode) ==
    IF Captures(io_mode)
    THEN [stdin |-> "null", stdout |-> "piped", stderr |-> "piped"]
    ELSE [stdin |-> "inherit", stdout |-> "inherit", stderr |-> "inherit"]

\* let abs_dir = match options.dir { Some(p) => fs::canonicalize(p), None => current_dir() }
abs_dir_of(dir) ==
    IF dir = NoDir THEN [ok |-> TRUE, path |-> CurrentDir] ELSE canonicalize(dir)

\* The failure of a foreground command reported with the background error.
ExecuteResultBackgroundKind(status, output) ==
    IF success(status) THEN Ok(trim(output)) ELSE TtyBackgroundCommandFailed(status)

\* if status.success() { Ok(collected_output.trim()) } else { Err(TtyCommandFailed) }
ExecuteResult(status, output) ==
    IF success(status) THEN Ok(trim(output)) ELSE TtyCommandFailed(status, output)

\* A failed spawn reported as a failed command.
SpawnErrorAsCommandFailed == TtyCommandFailed(NoStatus, << >>)

\* .spawn().map_err(|e| TtyExecuteError::with_debug(&e))?
SpawnError == TtyExecuteError

\* The point execute reaches after a successful spawn.
AfterSpawn(io_mode, stdio) ==
    IF Captures(io_mode) /\ stdio.stdout = "piped" THEN "read_stdout"
    ELSE IF Captures(io_mode) /\ stdio.stderr = "piped" THEN "read_stderr"
    ELSE "wait"

\* The locals of a call that has not spawned anything.
FreshLocals ==
    /\ child' = NoChild
    /\ pipe_out' = << >>
    /\ pipe_err' = << >>
    /\ collected_output' = << >>
    /\ echoed' = NoEcho
    /\ written' = << >>
    /\ read_failed' = FALSE

\* execute_with_options / execute_with_options_sync, up to the first read.
Execute(op, command, io_mode, dir) ==
    /\ pc = "idle"
    /\ call' = [op |-> op, io_mode |-> io_mode, dir |-> dir, command |-> command,
                lookup |-> "none"]
    /\ LET abs_dir == abs_dir_of(dir)
           stdio   == StdioFor(io_mode)
       IN  IF ~abs_dir.ok
           THEN /\ result' = IOError
                /\ pc' = "idle"
                /\ FreshLocals
           ELSE IF command \notin Installed
           THEN /\ result' = SpawnError
                /\ pc' = "idle"
                /\ FreshLocals
           ELSE /\ result' = Pending
                /\ pc' = AfterSpawn(io_mode, stdio)
                /\ child' = [state |-> "running", status |-> NoStatus,
                             cwd |-> abs_dir.path, stdin |-> stdio.stdin,
                             stdout |-> stdio.stdout, stderr |-> stdio.stderr]
                /\ pipe_out' = << >>
                /\ pipe_err' = << >>
                /\ collected_output' = << >>
                /\ echoed' = NoEcho
                /\ written' = << >>
                /\ read_failed' = FALSE
    /\ processes' = << >>
    /\ polled' = << >>
    /\ UNCHANGED list_vars
    /\ UNCHANGED <<script, ext_vars>>

\* The foreground child writes one byte to one of its streams: any byte to
\* any stream while it has written less than MaxWrites, or, when the command
\* is a script of writes, the next write of the script.  A write to a
\* pipe needs room in the pipe and the parent's end still open (the parent
\* drops stdout when it leaves the stdout loop, stderr when it leaves the
\* stderr loop); a write to an inherited stream goes to the terminal.
ChildWrite(s, b) ==
    /\ child.state = "running"
    /\ IF script = Free
       THEN Len(written) < MaxWrites
       ELSE script # << >> /\ Head(script) = s
    /\ \/ /\ child[s] = "piped"
          /\ IF s = "stdout"
             THEN /\ pc = "read_stdout"
                  /\ Len(pipe_out) < PipeCap
                  /\ pipe_out' = Append(pipe_out, b)
                  /\ UNCHANGED pipe_err
             ELSE /\ pc \in {"read_stdout", "read_stderr"}
                  /\ Len(pipe_err) < PipeCap
                  /\ pipe_err' = Append(pipe_err, b)
                  /\ UNCHANGED pipe_out
       \/ /\ child[s] = "inherit"
          /\ UNCHANGED <<pipe_out, pipe_err>>
    /\ written' = Append(written, <<s, b>>)
    /\ UNCHANGED <<pc, call, result, child, collected_output, echoed, read_failed>>
    /\ UNCHANGED bg_vars
    /\ script' = IF script = Free THEN Free ELSE Tail(script)
    /\ UNCHANGED ext_vars

\* The foreground child ends, which closes its ends of the pipes.  A script
\* of writes ends when its writes are done.
ChildExit(status) ==
    /\ child.state = "running"
    /\ pc # "idle"
    /\ script \in {Free, << >>}
    /\ child' = [child EXCEPT !.state = "exited", !.status = status]
    /\ UNCHANGED <<pc, call, result, pipe_out, pipe_err, collected_output,
                   echoed, written, read_failed>>
    /\ UNCHANGED bg_vars
    /\ UNCHANGED <<script, ext_vars>>

\* stderr printed under StreamOutput alone.
EchoesStderrWhenStreaming(io_mode) == io_mode = "StreamOutput"

\* Whether a chunk read from stdout / stderr is printed.
EchoesStdout(io_mode) == io_mode = "StreamOutput"

EchoesStderr(io_mode) == io_mode # "Mute"

\* One turn of the stdout loop: stdout.read(&mut buffer).
ReadStdout ==
    /\ pc = "read_stdout"
    /\ \/ \E n \in 1..Min(BufLen, Len(pipe_out)) :   \* Ok(n)
            LET output == from_utf8_lossy(SubSeq(pipe_out, 1, n))
            IN  /\ echoed' = IF EchoesStdout(call.io_mode)
                             THEN [echoed EXCEPT !.stdout = @ \o output]
                             ELSE echoed
                /\ collected_output' = collected_output \o output
                /\ pipe_out' = SubSeq(pipe_out, n + 1, Len(pipe_out))
                /\ UNCHANGED <<pc, read_failed>>
       \/ /\ pipe_out = << >>                          \* Ok(0) => break
          /\ child.state = "exited"
          /\ pc' = IF child.stderr = "piped" THEN "read_stderr" ELSE "wait"
          /\ UNCHANGED <<echoed, collected_output, pipe_out, read_failed>>
       \/ /\ pc' = IF child.stderr = "piped" THEN "read_stderr" ELSE "wait"   \* Err(_) => break
          /\ read_failed' = TRUE
          /\ UNCHANGED <<echoed, collected_output, pipe_out>>
    /\ UNCHANGED <<call, result, child, pipe_err, written>>
    /\ UNCHANGED bg_vars
    /\ UNCHANGED <<script, ext_vars>>

\* One turn of the stderr loop: stderr.read(&mut buffer).
ReadStderr ==
    /\ pc = "read_stderr"
    /\ \/ \E n \in 1..Min(BufLen, Len(pipe_err)) :   \* Ok(n)
            LET output == from_utf8_lossy(SubSeq(pipe_err, 1, n))
            IN  /\ echoed' = IF EchoesStderr(call.io_mode)
                             THEN [echoed EXCEPT !.stderr = @ \o output]
                             ELSE echoed
                /\ collected_output' = collected_output \o output
                /\ pipe_err' = SubSeq(pipe_err, n + 1, Len(pipe_err))
                /\ UNCHANGED <<pc, read_failed>>
       \/ /\ pipe_err = << >>                          \* Ok(0) => break
          /\ child.state = "exited"
          /\ pc' = "wait"
          /\ UNCHANGED <<echoed, collected_output, pipe_err, read_failed>>
       \/ /\ pc' = "wait"                              \* Err(_) => break
          /\ read_failed' = TRUE
          /\ UNCHANGED <<echoed, collected_output, pipe_err>>
    /\ UNCHANGED <<call, result, child, pipe_out, written>>
    /\ UNCHANGED bg_vars
    /\ UNCHANGED <<script, ext_vars>>

\* child.wait(), and the return of execute.
Wait ==
    /\ pc = "wait"
    /\ \/ /\ child.state = "exited"
          /\ result' = ExecuteResult(child.status, collected_output)
       \/ result' = TtyExecuteError                   \* wait() returned Err
    /\ pc' = "idle"
    /\ UNCHANGED <<call, child, pipe_out, pipe_err, collected_output, echoed,
                   written, read_failed>>
    /\ UNCHANGED bg_vars
    /\ UNCHANGED <<script, ext_vars>>

\* ----------------------------------------------------- has_command
BoolResult(b) == [kind |-> IF b THEN "true" ELSE "false", value |-> << >>,
                  status |-> NoStatus]

\* The name looked up as it was given.
has_command_untrimmed(program, lookup_runs) ==
    [found |-> lookup_runs /\ program \in Installed,
     lookup |-> IF lookup_runs THEN "ran" ELSE "failed"]

\* has_command: the trimmed name is looked up with `command -v`, unless it is
\* empty.  lookup_runs is whether the lookup process could be run at all
\* (.status() returned Ok); the lookup exits with 0 for an installed name.
has_command(program, lookup_runs) ==
    LET name == trim(program)
    IN  IF name = << >> THEN [found |-> FALSE, lookup |-> "none"]
        ELSE [found |-> lookup_runs /\ name \in Installed,
              lookup |-> IF lookup_runs THEN "ran" ELSE "failed"]

HasCommand(program, lookup_runs) ==
    /\ pc = "idle"
    /\ LET r == has_command(program, lookup_runs)
       IN  /\ call' = [op |-> "has_command", io_mode |-> "Attach", dir |-> NoDir,
                       command |-> program, lookup |-> r.lookup]
           /\ result' = BoolResult(r.found)
    /\ pc' = "idle"
    /\ FreshLocals
    /\ processes' = << >>
    /\ polled' = << >>
    /\ UNCHANGED list_vars
    /\ UNCHANGED <<script, ext_vars>>

RequireCommand(program, lookup_runs) ==
    /\ pc = "idle"
    /\ LET r == has_command(program, lookup_runs)
       IN  /\ call' = [op |-> "require_command", io_mode |-> "Attach", dir |-> NoDir,
                       command |-> program, lookup |-> r.lookup]
           /\ result' = IF r.found THEN Ok(<< >>) ELSE TtyRequiredCommandMissing(program)
    /\ pc' = "idle"
    /\ FreshLocals
    /\ processes' = << >>
    /\ polled' = << >>
    /\ UNCHANGED list_vars
    /\ UNCHANGED <<script, ext_vars>>

\* --------------------------------------------------- background children
\* The new child put in front of the list.
PushFront(list, c) == <<c>> \o list

\* The spawned child not kept.
PushNothing(list, c) == list

\* self.background_processes.push(child)
PushChild(list, c) == Append(list, c)

\* Only the first child taken out of the list.
DrainFirst(list) ==
    IF list = << >> THEN [taken |-> << >>, left |-> << >>]
    ELSE [taken |-> <<Head(list)>>, left |-> Tail(list)]

\* self.background_processes.drain(..).collect(): what is taken out of the
\* list and what is left in it.
Drain(list) == [taken |-> list, left |-> << >>]

\* The children visited from the back.
LastVisited(ps) == Len(ps)

\* for mut process in processes: the position visited next.
NextVisited(ps) == 1

Without(ps, i) == SubSeq(ps, 1, i - 1) \o SubSeq(ps, i + 1, Len(ps))

\* let abs_dir = fs::canonicalize(dir.unwrap_or("."))
bg_abs_dir_of(dir) == canonicalize(IF dir = NoDir THEN "." ELSE dir)

\* execute_background
ExecuteBackground(command, dir) ==
    /\ pc = "idle"
    /\ Len(background_processes) < MaxBackground
    /\ call' = [op |-> "execute_background", io_mode |-> "Attach", dir |-> dir,
                command |-> command, lookup |-> "none"]
    /\ LET abs_dir == bg_abs_dir_of(dir)
       IN  IF ~abs_dir.ok
           THEN /\ result' = IOError
                /\ UNCHANGED list_vars
           ELSE IF command \notin Installed
           THEN /\ result' = TtyExecuteError
                /\ UNCHANGED list_vars
           ELSE /\ result' = Ok(<< >>)
                /\ background_processes' =
                      PushChild(background_processes,
                                [pid |-> Len(background_processes) + 1,
                                 state |-> "running", status |-> NoStatus,
                                 cwd |-> abs_dir.path])
                /\ registered' = registered + 1
    /\ pc' = "idle"
    /\ FreshLocals
    /\ processes' = << >>
    /\ polled' = << >>
    /\ UNCHANGED <<script, ext_vars>>

\* A background child ends.  Nothing looks at a background child before
\* resolve_background_processes has drained it, so its end is placed after
\* the drain: a child that ended earlier is one that ends before the poll.
BackgroundExit(i, status) ==
    /\ pc \in {"resolve_poll", "resolve_wait"}
    /\ i \in 1..Len(processes)
    /\ processes[i].state = "running"
    /\ processes' = [processes EXCEPT ![i].state = "exited", ![i].status = status]
    /\ UNCHANGED <<background_processes, polled, registered, pc, call, result>>
    /\ UNCHANGED fg_vars
    /\ UNCHANGED <<script, ext_vars>>

\* resolve_background_processes: the drain.  With nothing drained the loop
\* is not entered and the call returns.
ResolveBegin ==
    /\ pc = "idle"
    /\ call' = [op |-> "resolve_background_processes", io_mode |-> "Attach",
                dir |-> NoDir, command |-> << >>, lookup |-> "none"]
    /\ LET d == Drain(background_processes)
       IN  /\ processes' = d.taken
           /\ background_processes' = d.left
           /\ IF d.taken = << >>
              THEN /\ pc' = "idle"
                   /\ result' = Ok(<< >>)
              ELSE /\ pc' = "resolve_poll"
                   /\ result' = Pending
    /\ polled' = << >>
    /\ registered' = 0
    /\ FreshLocals
    /\ UNCHANGED <<script, ext_vars>>

\* process.try_wait(): Ok(Some(_)), Ok(None) with the notice, or Err(e) with
\* the error printed.
ResolvePoll ==
    /\ pc = "resolve_poll"
    /\ LET i == NextVisited(processes)
           p == processes[i]
       IN  \E try_wait \in {"Ok", "Err"} :
             polled' = Append(polled,
                 [pid |-> p.pid,
                  try_wait |-> IF try_wait = "Err" THEN "Err"
                               ELSE IF p.state = "exited" THEN "Some" ELSE "None",
                  wait |-> "Pending", state |-> p.state, status |-> NoStatus])
    /\ pc' = "resolve_wait"
    /\ UNCHANGED <<background_processes, processes, registered, call, result>>
    /\ UNCHANGED fg_vars
    /\ UNCHANGED <<script, ext_vars>>

\* process.wait().await and the match on its result.  The children not yet
\* visited when the call returns are left in processes: they are dropped.
ResolveWait ==
    /\ pc = "resolve_wait"
    /\ LET i    == NextVisited(processes)
           p    == processes[i]
           rest == Without(processes, i)
           n    == Len(polled)
       IN  \/ /\ p.state = "exited"                      \* Ok(status)
              /\ polled' = [polled EXCEPT ![n].wait = "Ok", ![n].state = p.state,
                                          ![n].status = p.status]
              /\ processes' = rest
              /\ IF code_or_default(p.status) = 0
                 THEN IF rest = << >>
                      THEN /\ pc' = "idle"
                           /\ result' = Ok(<< >>)
                      ELSE /\ pc' = "resolve_poll"
                           /\ UNCHANGED result
                 ELSE /\ pc' = "idle"
                      /\ result' = TtyBackgroundCommandFailed(p.status)
           \/ /\ polled' = [polled EXCEPT ![n].wait = "Err", ![n].state = p.state,
                                          ![n].status = p.status]   \* Err(e)
              /\ processes' = rest
              /\ pc' = "idle"
              /\ result' = TtyExecuteError
    /\ UNCHANGED <<background_processes, registered, call>>
    /\ UNCHANGED fg_vars
    /\ UNCHANGED <<script, ext_vars>>

\* ------------------------------------------------ with_tmp_edits_to_file
\* What the file at path can hold before a call, and what a stale file at
\* backup_path holds.
FileTexts == {<< >>, <<97>>, <<97, 98>>}

Files == {Absent} \cup {[exists |-> TRUE, text |-> t] : t \in FileTexts}

StaleBackups == {Absent, [exists |-> TRUE, text |-> <<122>>]}

\* The edits a caller passes: E: FnOnce(String) -> String.
Edits == {"append", "clear", "keep"}

apply_edit(edit, text) ==
    CASE edit = "append" -> text \o <<120>>
      [] edit = "clear"  -> << >>
      [] OTHER           -> text

\* The original contents passed on as the edited ones.
UneditedContents(c) == c.original

\* let edited = edit(original)
EditedContents(c) == [exists |-> TRUE, text |-> apply_edit(c.edit, c.original.text)]

\* What a write or a copy that failed can leave at its destination: the
\* destination as it was, or a file cut short.
CutShort(content, dst) ==
    {dst} \cup {[exists |-> TRUE, text |-> SubSeq(content.text, 1, k)] :
                   k \in 0..(Len(content.text) - 1)}

\* mv on a file: fs_extra::file::move_file with overwrite(true), which copies
\* src over dst and then removes src.  The outcomes: moved; the copy failed;
\* the copy was made and the removal failed.
move_file(src, dst) ==
    IF ~src.exists THEN {[ok |-> FALSE, src |-> src, dst |-> dst]}
    ELSE {[ok |-> TRUE, src |-> Absent, dst |-> src]}
         \cup {[ok |-> FALSE, src |-> src, dst |-> d] : d \in CutShort(src, dst)}
         \cup {[ok |-> FALSE, src |-> src, dst |-> src]}

\* What op can leave at path: op is the caller's, and may rewrite or remove
\* the file it was given.
OpLeaves(f) == {f, Absent, [exists |-> TRUE, text |-> <<111>>]}

TemporaryFileError(step) == [kind |-> "TemporaryFileError", from |-> step]

OpResult(outcome) == [kind |-> outcome, from |-> "op"]

\* The files as they are before a call.
EditPrepare(f, b) ==
    /\ edit_pc = "idle"
    /\ file' = f
    /\ backup' = b
    /\ edit_call' = NoEditCall
    /\ edit_result' = NoEditResult
    /\ op_saw' = Absent
    /\ UNCHANGED edit_pc
    /\ UNCHANGED edit_frame

\* with_tmp_edits_to_file, up to the move to the backup: path.exists() and
\* read_to_string(path).  The call is made on the files as they were
\* prepared.
EditBegin(edit) ==
    /\ edit_pc = "idle"
    /\ edit_call = NoEditCall
    /\ edit_call' = [original |-> file, edit |-> edit]
    /\ op_saw' = Absent
    /\ IF ~file.exists
       THEN /\ edit_result' = TemporaryFileError("exists")
            /\ UNCHANGED edit_pc
       ELSE \/ /\ edit_result' = NoEditResult
               /\ edit_pc' = "backup"
            \/ /\ edit_result' = TemporaryFileError("read")
               /\ UNCHANGED edit_pc
    /\ UNCHANGED <<file, backup>>
    /\ UNCHANGED edit_frame

\* mv(path, &backup_path)
EditBackup ==
    /\ edit_pc = "backup"
    /\ \E o \in move_file(file, backup) :
          /\ file' = o.src
          /\ backup' = o.dst
          /\ IF o.ok
             THEN /\ edit_pc' = "write"
                  /\ UNCHANGED edit_result
             ELSE /\ edit_pc' = "idle"
                  /\ edit_result' = TemporaryFileError("backup")
    /\ UNCHANGED <<edit_call, op_saw>>
    /\ UNCHANGED edit_frame

\* std::fs::write(path, edited); when it fails, let _ = mv(&backup_path, path)
\* and the error.
EditWrite ==
    /\ edit_pc = "write"
    /\ \/ /\ file' = EditedContents(edit_call)
          /\ edit_pc' = "op"
          /\ UNCHANGED <<backup, edit_result>>
       \/ \E left \in CutShort(EditedContents(edit_call), file) :
            \E o \in move_file(backup, left) :
               /\ backup' = o.src
               /\ file' = o.dst
               /\ edit_pc' = "idle"
               /\ edit_result' = TemporaryFileError("write")
    /\ UNCHANGED <<edit_call, op_saw>>
    /\ UNCHANGED edit_frame

\* let result = op(); then mv(&backup_path, path) and the return.
EditOpAndRestore ==
    /\ edit_pc = "op"
    /\ op_saw' = file
    /\ \E outcome \in {"Ok", "Err"}, left \in OpLeaves(file) :
         \E o \in move_file(backup, left) :
            /\ backup' = o.src
            /\ file' = o.dst
            /\ edit_result' = IF o.ok THEN OpResult(outcome)
                              ELSE TemporaryFileError("restore")
    /\ edit_pc' = "idle"
    /\ UNCHANGED edit_call
    /\ UNCHANGED edit_frame

EditStep ==
    \/ \E f \in Files, b \in StaleBackups : EditPrepare(f, b)
    \/ \E edit \in Edits : EditBegin(edit)
    \/ EditBackup
    \/ EditWrite
    \/ EditOpAndRestore

SpecEdit == Init /\ [][EditStep]_vars

\* --------------------------------------------- create_access_key_for_user
\* if existing_keys.len() >= 2: the number of keys IAM lets a user hold.
MaxKeys == 2

Rotations == {"DeleteOldest", "DeleteNewest", "DeleteAll", "None"}

KeyStatuses == {"Active", "Inactive"}

CreateDates == 1..MaxKeys

\* The keys a user can hold before a call, as list_access_keys returns them.
AccountKeys ==
    UNION {[1..n -> [id : 1..MaxKeys, status : KeyStatuses, created : CreateDates]] :
             n \in 0..MaxKeys}

DistinctIds(keys) ==
    \A i, j \in 1..Len(keys) : keys[i].id = keys[j].id => i = j

\* The key create_access_key makes.
NewKey == [id |-> MaxKeys + 1, status |-> "Active", created |-> MaxKeys + 1]

IamOk(key_id) == [kind |-> "Ok", key |-> key_id, key_count |-> 0]

IamError == [kind |-> "IamError", key |-> 0, key_count |-> 0]

IamAccessKeyLimitReached(key_count) ==
    [kind |-> "IamAccessKeyLimitReached", key |-> 0, key_count |-> key_count]

IamAccessKeyNullAfterCreate ==
    [kind |-> "IamAccessKeyNullAfterCreate", key |-> 0, key_count |-> 0]

RECURSIVE IdsWhere(_, _)
\* .iter().filter(..).filter_map(key_id).collect()
IdsWhere(keys, statuses) ==
    IF keys = << >> THEN << >>
    ELSE IF Head(keys).status \in statuses
         THEN <<Head(keys).id>> \o IdsWhere(Tail(keys), statuses)
         ELSE IdsWhere(Tail(keys), statuses)

\* min_by_key: the first of the keys with the least creation date.
pick_oldest_key(keys) ==
    LET i == CHOOSE i \in 1..Len(keys) :
                /\ \A j \in 1..Len(keys) : keys[i].created <= keys[j].created
                /\ \A j \in 1..(i - 1) : keys[j].created > keys[i].created
    IN  keys[i].id

\* max_by_key: the last of the keys with the greatest creation date.
pick_newest_key(keys) ==
    LET i == CHOOSE i \in 1..Len(keys) :
                /\ \A j \in 1..Len(keys) : keys[i].created >= keys[j].created
                /\ \A j \in (i + 1)..Len(keys) : keys[j].created < keys[i].created
    IN  keys[i].id

RECURSIVE WithoutKey(_, _)
\* The keys of the user after delete_access_key of one of them.
WithoutKey(keys, id) ==
    IF keys = << >> THEN << >>
    ELSE IF Head(keys).id = id THEN Tail(keys)
         ELSE <<Head(keys)>> \o WithoutKey(Tail(keys), id)

KeyWithId(keys, id) == keys[CHOOSE i \in 1..Len(keys) : keys[i].id = id]

\* Every key counted as one that blocks a new key.
LimitReachedAlways(keys) == TRUE

\* KeyRotation::None => if existing_keys.len() >= 2
LimitReached(keys) == Len(keys) >= MaxKeys

\* No number of keys taken as a reason to delete one.
RotationNeverNeeded(keys) == FALSE

\* DeleteOldest / DeleteNewest => if existing_keys.len() >= 2
RotationNeeded(keys) == Len(keys) >= MaxKeys

\* The keys of the user before a call.
IamPrepare(keys) ==
    /\ iam_pc = "idle"
    /\ DistinctIds(keys)
    /\ iam_keys' = keys
    /\ iam_call' = NoIamCall
    /\ iam_result' = NoIamResult
    /\ existing_keys' = << >>
    /\ pending_deletes' = << >>
    /\ iam_deleted' = << >>
    /\ UNCHANGED iam_pc
    /\ UNCHANGED iam_frame

\* create_access_key_for_user, up to the loop over the inactive keys: the
\* first list_access_keys, which can fail.
IamBegin(rotation) ==
    /\ iam_pc = "idle"
    /\ iam_call = NoIamCall
    /\ iam_call' = [rotation |-> rotation, keys |-> iam_keys]
    /\ iam_deleted' = << >>
    /\ \/ /\ existing_keys' = iam_keys
          /\ pending_deletes' = IdsWhere(iam_keys, {"Inactive"})
          /\ iam_pc' = "delete_inactive"
          /\ iam_result' = NoIamResult
       \/ /\ iam_result' = IamError
          /\ UNCHANGED <<existing_keys, pending_deletes, iam_pc>>
    /\ UNCHANGED iam_keys
    /\ UNCHANGED iam_frame

\* One delete_access_key of a loop: of the inactive keys, or of all the keys
\* under DeleteAll.  A delete that fails ends the call.
IamDelete ==
    /\ iam_pc \in {"delete_inactive", "delete_all"}
    /\ pending_deletes # << >>
    /\ LET id == Head(pending_deletes)
       IN  \/ /\ iam_keys' = WithoutKey(iam_keys, id)
              /\ iam_deleted' = Append(iam_deleted, KeyWithId(iam_keys, id))
              /\ pending_deletes' = Tail(pending_deletes)
              /\ iam_pc' = IF iam_pc = "delete_all" /\ Tail(pending_deletes) = << >>
                           THEN "create" ELSE iam_pc
              /\ UNCHANGED iam_result
           \/ /\ iam_result' = IamError
              /\ iam_pc' = "idle"
              /\ UNCHANGED <<iam_keys, iam_deleted, pending_deletes>>
    /\ UNCHANGED <<iam_call, existing_keys>>
    /\ UNCHANGED iam_frame

\* existing_keys = list_access_keys(..)?, then the match on rotation up to
\* its first request.
IamListAgain ==
    /\ iam_pc = "delete_inactive"
    /\ pending_deletes = << >>
    /\ \/ /\ existing_keys' = iam_keys
          /\ CASE iam_call.rotation = "DeleteAll" ->
                    /\ pending_deletes' = IdsWhere(iam_keys, KeyStatuses)
                    /\ iam_pc' = IF iam_keys = << >> THEN "create" ELSE "delete_all"
                    /\ UNCHANGED iam_result
               [] iam_call.rotation \in {"DeleteOldest", "DeleteNewest"} ->
                    /\ iam_pc' = IF RotationNeeded(iam_keys) THEN "delete_one" ELSE "create"
                    /\ UNCHANGED <<pending_deletes, iam_result>>
               [] OTHER ->
                    /\ IF LimitReached(iam_keys)
                       THEN /\ iam_result' = IamAccessKeyLimitReached(Len(iam_keys))
                            /\ iam_pc' = "idle"
                       ELSE /\ iam_pc' = "create"
                            /\ UNCHANGED iam_result
                    /\ UNCHANGED pending_deletes
       \/ /\ iam_result' = IamError
          /\ iam_pc' = "idle"
          /\ UNCHANGED <<existing_keys, pending_deletes>>
    /\ UNCHANGED <<iam_keys, iam_call, iam_deleted>>
    /\ UNCHANGED iam_frame

\* DeleteOldest / DeleteNewest: the delete of the key picked.
IamDeleteOne ==
    /\ iam_pc = "delete_one"
    /\ LET id == IF iam_call.rotation = "DeleteOldest"
                 THEN pick_oldest_key(existing_keys)
                 ELSE pick_newest_key(existing_keys)
       IN  \/ /\ iam_keys' = WithoutKey(iam_keys, id)
              /\ iam_deleted' = Append(iam_deleted, KeyWithId(iam_keys, id))
              /\ iam_pc' = "create"
              /\ UNCHANGED iam_result
           \/ /\ iam_result' = IamError
              /\ iam_pc' = "idle"
              /\ UNCHANGED <<iam_keys, iam_deleted>>
    /\ UNCHANGED <<iam_call, existing_keys, pending_deletes>>
    /\ UNCHANGED iam_frame

\* client.create_access_key(): the key, a response without a key, or an
\* error, which is what IAM answers for a user that holds MaxKeys keys.
IamCreate ==
    /\ iam_pc = "create"
    /\ \/ /\ Len(iam_keys) < MaxKeys
          /\ iam_keys' = Append(iam_keys, NewKey)
          /\ iam_result' \in {IamOk(NewKey.id), IamAccessKeyNullAfterCreate}
       \/ /\ iam_result' = IamError
          /\ UNCHANGED iam_keys
    /\ iam_pc' = "idle"
    /\ UNCHANGED <<iam_call, existing_keys, pending_deletes, iam_deleted>>
    /\ UNCHANGED iam_frame

IamStep ==
    \/ \E keys \in AccountKeys : IamPrepare(keys)
    \/ \E rotation \in Rotations : IamBegin(rotation)
    \/ IamDelete
    \/ IamListAgain
    \/ IamDeleteOne
    \/ IamCreate

SpecIam == Init /\ [][IamStep]_vars

\* ------------------------------------------------------------ Tty::close
\* The final_result a script hands to close: Ok, or the script's own error.
ScriptError == Err("ScriptError", NoStatus, << >>)

FinalResults == {Ok(<< >>), ScriptError}

\* The error of the cleanup put before the error of the script.
and_cleanup_first(final_result, cleanup) ==
    IF cleanup.kind = "Ok" THEN final_result ELSE cleanup

\* Result::and: final_result.and(cleanup)
and(final_result, cleanup) ==
    IF final_result.kind = "Ok" THEN cleanup ELSE final_result

\* close(self, final_result) is entered.
CloseCall(final_result) ==
    /\ pc = "idle"
    /\ close_final = Pending
    /\ close_final' = final_result
    /\ UNCHANGED <<close_report, exit_status>>
    /\ UNCHANGED close_frame

\* let cleanup = self.executor.resolve_background_processes(&self.printer)
CloseResolve ==
    /\ close_final # Pending
    /\ call.op # "resolve_background_processes"
    /\ ResolveBegin

\* match final_result.and(cleanup): SUCCESS, or the error printed and
\* std::process::exit(1).
CloseReport ==
    /\ close_final # Pending
    /\ close_report = "none"
    /\ pc = "idle"
    /\ call.op = "resolve_background_processes"
    /\ LET outcome == and(close_final, result)
       IN  IF outcome.kind = "Ok"
           THEN /\ close_report' = "SUCCESS"
                /\ exit_status' = "returned"
           ELSE /\ close_report' = outcome.kind
                /\ exit_status' = "exit(1)"
    /\ UNCHANGED close_final
    /\ UNCHANGED close_frame

\* What a script does with the executor before it calls close.
ScriptStep ==
    /\ close_final = Pending
    /\ \E command \in Commands, dir \in DirArgs : ExecuteBackground(command, dir)

CloseStep ==
    \/ \E final_result \in FinalResults : CloseCall(final_result)
    \/ CloseResolve
    \/ CloseReport

NextClose ==
    \/ ScriptStep
    \/ CloseStep
    \/ \E i \in 1..MaxBackground, status \in ExitStatuses : BackgroundExit(i, status)
    \/ ResolvePoll
    \/ ResolveWait

SpecClose == Init /\ [][NextClose]_vars

\* ------------------------------------- execute_with_options twice over
\* execute_with_options on some child, its outcome kept, and then
\* execute_with_options_sync with the same command, io_mode and options on a
\* child that behaves in the same way: the same writes in the same order and
\* the same exit status.  What the two calls read in one read is not the
\* child's to decide.
ExecuteAsync ==
    /\ previous = NoRun
    /\ \E io_mode \in IOModes : Execute("execute_with_options", SH, io_mode, NoDir)

\* The outcome of a call in which no read and no wait failed is kept.
Remember ==
    /\ previous = NoRun
    /\ pc = "idle"
    /\ call.op = "execute_with_options"
    /\ child.state = "exited"
    /\ ~read_failed
    /\ result.kind \in {"Ok", "TtyCommandFailed"}
    /\ previous' = [io_mode |-> call.io_mode, written |-> written,
                    status |-> child.status, result |-> result, echoed |-> echoed]
    /\ UNCHANGED pair_frame

ExecuteSyncSame ==
    /\ previous # NoRun
    /\ call.op = "execute_with_options"
    /\ Execute("execute_with_options_sync", SH, previous.io_mode, NoDir)

SameWrite ==
    \E s \in Streams, b \in ChildBytes :
       /\ previous # NoRun
             => /\ Len(written) < Len(previous.written)
                /\ previous.written[Len(written) + 1] = <<s, b>>
       /\ ChildWrite(s, b)

SameExit ==
    \E status \in ExitStatuses :
       /\ previous # NoRun
             => (written = previous.written /\ status = previous.status)
       /\ ChildExit(status)

NextPair ==
    \/ ExecuteAsync
    \/ Remember
    \/ ExecuteSyncSame
    \/ SameWrite
    \/ SameExit
    \/ ReadStdout
    \/ ReadStderr
    \/ Wait

SpecPair == Init /\ [][NextPair]_vars

\* ------------------------------------------------------- general::umount
\* umount(ex, path, sudo_fallback): one execute of "umount", a decision on
\* the text of its error, and at most one execute of "sudo umount".  What
\* each execute returns is the environment's choice among the results
\* execute_with_options can produce for the outputs below.
\* msg.contains("not mounted")
NOT_MOUNTED == <<110, 111, 116, 32, 109, 111, 117, 110, 116, 101, 100>>

\* msg.contains("not currently mounted")
NOT_CURRENTLY_MOUNTED == <<110, 111, 116, 32, 99, 117, 114, 114, 101, 110,
    116, 108, 121, 32, 109, 111, 117, 110, 116, 101, 100>>

\* msg.contains("permission denied")
PERMISSION_DENIED == <<112, 101, 114, 109, 105, 115, 115, 105, 111, 110, 32,
    100, 101, 110, 105, 101, 100>>

\* msg.contains("operation not permitted")
OPERATION_NOT_PERMITTED == <<111, 112, 101, 114, 97, 116, 105, 111, 110, 32,
    110, 111, 116, 32, 112, 101, 114, 109, 105, 116, 116, 101, 100>>

\* What umount and sudo may print: "/mnt: not mounted."
OutNotMounted == <<47, 109, 110, 116, 58, 32, 110, 111, 116, 32, 109, 111,
    117, 110, 116, 101, 100, 46>>

\* "/mnt: not currently mounted"
OutNotCurrentlyMounted == <<47, 109, 110, 116, 58, 32, 110, 111, 116, 32,
    99, 117, 114, 114, 101, 110, 116, 108, 121, 32, 109, 111, 117, 110, 116,
    101, 100>>

\* "/mnt: Permission denied"
OutPermissionDenied == <<47, 109, 110, 116, 58, 32, 80, 101, 114, 109, 105,
    115, 115, 105, 111, 110, 32, 100, 101, 110, 105, 101, 100>>

\* "/mnt: Operation not permitted"
OutOperationNotPermitted == <<47, 109, 110, 116, 58, 32, 79, 112, 101, 114,
    97, 116, 105, 111, 110, 32, 110, 111, 116, 32, 112, 101, 114, 109, 105,
    116, 116, 101, 100>>

\* "/mnt: target is busy."
OutBusy == <<47, 109, 110, 116, 58, 32, 116, 97, 114, 103, 101, 116, 32,
    105, 115, 32, 98, 117, 115, 121, 46>>

\* The fixed text of TtyCommandFailed after the status: "] Command failed.\n"
CommandFailedText == <<93, 32, 67, 111, 109, 109, 97, 110, 100, 32, 102, 97,
    105, 108, 101, 100, 46, 10>>

\* The message of TtyExecuteError: "Failed to execute command."
ExecuteErrorText == <<70, 97, 105, 108, 101, 100, 32, 116, 111, 32, 101,
    120, 101, 99, 117, 116, 101, 32, 99, 111, 109, 109, 97, 110, 100, 46>>

\* The message of IOError: "IO error."
IOErrorText == <<73, 79, 32, 101, 114, 114, 111, 114, 46>>

\* Display of an ExitStatus: "exit status: N" or "signal: N"
ExitStatusText == <<101, 120, 105, 116, 32, 115, 116, 97, 116, 117, 115, 58,
    32>>

SignalText == <<115, 105, 103, 110, 97, 108, 58, 32>>

\* A number in decimal digits.
RECURSIVE decimal(_)
decimal(n) ==
    IF n < 10 THEN <<48 + n>> ELSE decimal(n \div 10) \o <<48 + (n % 10)>>

\* The {exit_status} of the format string.
exit_status_text(status) ==
    IF status.signal = 0
    THEN ExitStatusText \o decimal(status.code)
    ELSE SignalText \o decimal(status.signal)

\* CliErrorTrait::message: the format string of the error's definition with
\* its arguments filled in.
message(e) ==
    CASE e.kind = "TtyCommandFailed" ->
            <<91>> \o exit_status_text(e.status) \o CommandFailedText \o e.value
      [] e.kind = "TtyExecuteError" -> ExecuteErrorText
      [] OTHER -> IOErrorText

\* str::to_lowercase, on the letters A..Z.
to_lowercase(s) ==
    [i \in 1..Len(s) |-> IF s[i] \in 65..90 THEN s[i] + 32 ELSE s[i]]

\* str::starts_with, and the test of str::strip_prefix
starts_with(s, t) == Len(t) <= Len(s) /\ SubSeq(s, 1, Len(t)) = t

\* The pattern looked for at the end of the text only.
contains_at_end(s, t) ==
    Len(t) <= Len(s) /\ SubSeq(s, Len(s) - Len(t) + 1, Len(s)) = t

\* str::contains
contains(s, t) ==
    \E i \in 0..(Len(s) - Len(t)) : SubSeq(s, i + 1, i + Len(t)) = t

UmountOutputs == {<< >>, OutNotMounted, OutNotCurrentlyMounted,
                  OutPermissionDenied, OutOperationNotPermitted, OutBusy}

\* What ex.execute(.., IOMode::StreamOutput) can return.
ExecuteOutcomes ==
    {ExecuteResult(status, output) : status \in ExitStatuses,
                                     output \in UmountOutputs}
    \cup {IOError, TtyExecuteError}

\* pub async fn umount(ex, path, sudo_fallback)
UmountCall(sudo_fallback) ==
    /\ umount_pc = "idle"
    /\ umount_call = NoUmountCall
    /\ umount_call' = [called |-> TRUE, sudo_fallback |-> sudo_fallback]
    /\ umount_pc' = "umount"
    /\ UNCHANGED <<attempts, umount_result>>
    /\ UNCHANGED umount_frame

\* match ex.execute("umount", &[path], IOMode::StreamOutput).await { .. }
UmountFirst ==
    /\ umount_pc = "umount"
    /\ \E r \in ExecuteOutcomes :
          /\ attempts' = Append(attempts, [command |-> "umount", result |-> r])
          /\ IF r.kind = "Ok"
             THEN /\ umount_result' = Ok(<< >>)
                  /\ umount_pc' = "idle"
             ELSE LET msg == to_lowercase(message(r))
                  IN  IF contains(msg, NOT_MOUNTED)
                         \/ contains(msg, NOT_CURRENTLY_MOUNTED)
                      THEN /\ umount_result' = Ok(<< >>)
                           /\ umount_pc' = "idle"
                      ELSE IF /\ umount_call.sudo_fallback
                              /\ \/ contains(msg, PERMISSION_DENIED)
                                 \/ contains(msg, OPERATION_NOT_PERMITTED)
                      THEN /\ umount_pc' = "sudo"
                           /\ UNCHANGED umount_result
                      ELSE /\ umount_result' = r
                           /\ umount_pc' = "idle"
    /\ UNCHANGED umount_call
    /\ UNCHANGED umount_frame

\* ex.execute("sudo", &["umount", path], IOMode::StreamOutput).await?;
\* return Ok(());
UmountSudo ==
    /\ umount_pc = "sudo"
    /\ \E r \in ExecuteOutcomes :
          /\ attempts' = Append(attempts, [command |-> "sudo", result |-> r])
          /\ umount_result' = IF r.kind = "Ok" THEN Ok(<< >>) ELSE r
    /\ umount_pc' = "idle"
    /\ UNCHANGED umount_call
    /\ UNCHANGED umount_frame

UmountStep ==
    \/ \E sudo_fallback \in BOOLEAN : UmountCall(sudo_fallback)
    \/ UmountFirst
    \/ UmountSudo

SpecUmount == Init /\ [][UmountStep]_vars

\* ---------------------------------------------------------- UserPreferences
\* UserPreferences::new with its walk along the "redirect: " files, and
\* get_pref and set_pref on the object it returns.  Every nested call of
\* get_preferences takes a stack frame; MaxDepth frames fill the stack, and a
\* call beyond them aborts the process.
MaxDepth == 3

\* path_str.replace('~', HOME) for a path that starts with '~'.
expand(path) == IF path = "~/prefs" THEN "/home/prefs" ELSE path

\* The serde_yaml::Value a Rust value of a type serializes to.
yaml_tag(type) == IF type = "String" THEN "String" ELSE "Number"

\* serde_yaml::to_value(value)
to_value(value) == [tag |-> yaml_tag(value.type), text |-> value.text]

\* serde_yaml::from_value::<T>(value).ok()
from_value(T, value) ==
    IF value.tag = yaml_tag(T) THEN [type |-> T, text |-> value.text] ELSE NoneValue

\* HashMap::insert
insert(m, k, v) == [x \in DOMAIN m \cup {k} |-> IF x = k THEN v ELSE m[x]]

\* HashMap::remove
remove(m, k) == [x \in DOMAIN m \ {k} |-> m[x]]

\* A map never taken for empty.
never_empty(m) == FALSE

\* HashMap::is_empty
is_empty(m) == DOMAIN m = {}

\* get_pref::<T>(key)
get_pref(scripts, name, key, T) ==
    IF name \notin DOMAIN scripts THEN NoneValue
    ELSE IF key \notin DOMAIN scripts[name] THEN NoneValue
    ELSE from_value(T, scripts[name][key])

\* set_pref up to the write of the file: what it makes of the scripts map.
set_in_memory(scripts, name, key, value) ==
    IF value # NoneValue
    THEN LET script_config == IF name \in DOMAIN scripts THEN scripts[name]
                              ELSE EmptyMap
         IN  insert(scripts, name, insert(script_config, key, to_value(value)))
    ELSE IF name \in DOMAIN scripts
    THEN LET script_config == remove(scripts[name], key)
         IN  IF is_empty(script_config)
             THEN remove(scripts, name)
             ELSE insert(scripts, name, script_config)
    ELSE scripts

\* The preference files before the program starts.
PrefsPrepare(files) ==
    /\ prefs_pc = "idle"
    /\ prefs_call = NoPrefsCall
    /\ prefs_files' = files
    /\ UNCHANGED <<prefs_pc, prefs_path, prefs_depth, preferences,
                   preferences_path, script_name, prefs_call, prefs_got,
                   prefs_result>>
    /\ UNCHANGED prefs_frame

\* UserPreferences::new, up to the call of get_preferences.
PrefsNew(path, name) ==
    /\ prefs_pc = "idle"
    /\ prefs_call = NoPrefsCall
    /\ prefs_call' = [NoPrefsCall EXCEPT !.op = "new", !.path = path, !.name = name]
    /\ prefs_path' = expand(path)
    /\ prefs_depth' = 1
    /\ prefs_pc' = "get_preferences"
    /\ UNCHANGED <<prefs_files, preferences, preferences_path, script_name,
                   prefs_got, prefs_result>>
    /\ UNCHANGED prefs_frame

\* One call of get_preferences: it returns through all its callers, or it
\* calls itself with the target of the redirect.
GetPreferences ==
    /\ prefs_pc = "get_preferences"
    /\ LET content == prefs_files[prefs_path]
       IN  CASE content.kind = "redirect" ->
                  /\ IF prefs_depth < MaxDepth
                     THEN /\ prefs_path' = content.target
                          /\ prefs_depth' = prefs_depth + 1
                          /\ UNCHANGED prefs_pc
                     ELSE /\ prefs_pc' = "aborted"
                          /\ UNCHANGED <<prefs_path, prefs_depth>>
                  /\ UNCHANGED <<preferences, preferences_path, script_name,
                                 prefs_result>>
             [] content.kind \in {"unreadable", "invalid"} ->
                  /\ prefs_result' = InvalidUserPreferencesFile
                  /\ prefs_pc' = "idle"
                  /\ prefs_depth' = 0
                  /\ UNCHANGED <<prefs_path, preferences, preferences_path,
                                 script_name>>
             [] OTHER ->
                  /\ preferences' = content.scripts
                  /\ preferences_path' = prefs_path
                  /\ script_name' = prefs_call.name
                  /\ prefs_result' = Ok(<< >>)
                  /\ prefs_pc' = "idle"
                  /\ prefs_depth' = 0
                  /\ UNCHANGED prefs_path
    /\ UNCHANGED <<prefs_files, prefs_call, prefs_got>>
    /\ UNCHANGED prefs_frame

\* There is a UserPreferences object.
HasPreferences == prefs_pc = "idle" /\ script_name # ""

\* get_pref::<T>(key)
GetPref(key, T) ==
    /\ HasPreferences
    /\ prefs_got' = [key |-> key, type |-> T,
                     value |-> get_pref(preferences, script_name, key, T)]
    /\ UNCHANGED <<prefs_files, prefs_pc, prefs_path, prefs_depth, preferences,
                   preferences_path, script_name, prefs_call, prefs_result>>
    /\ UNCHANGED prefs_frame

\* set_pref(key, value): the change of the map, then mkdir_p of the parent
\* directory, which can fail, and fs::write, whose failure is dropped.
SetPref(key, value) ==
    /\ HasPreferences
    /\ prefs_call' = [NoPrefsCall EXCEPT !.op = "set_pref", !.key = key,
                                         !.value = value]
    /\ prefs_got' = NoGot
    /\ preferences' = set_in_memory(preferences, script_name, key, value)
    /\ \/ /\ prefs_result' = IOError
          /\ UNCHANGED prefs_files
       \/ /\ prefs_result' = Ok(<< >>)
          /\ prefs_files' \in {prefs_files,
                               [prefs_files EXCEPT ![preferences_path] = Yaml(preferences')]}
    /\ UNCHANGED <<prefs_pc, prefs_path, prefs_depth, preferences_path, script_name>>
    /\ UNCHANGED prefs_frame

PrefsStep ==
    \/ \E files \in Arrangements : PrefsPrepare(files)
    \/ \E path \in PathArgs, name \in ScriptNames : PrefsNew(path, name)
    \/ GetPreferences
    \/ \E key \in PrefKeys, T \in PrefTypes : GetPref(key, T)
    \/ \E key \in PrefKeys, value \in PrefValues \cup {NoneValue} : SetPref(key, value)

\* get_pref and set_pref on an object made from a file that is no redirect.
NextPrefs ==
    \/ \E files \in PlainArrangements : PrefsPrepare(files)
    \/ \E path \in PathArgs, name \in ScriptNames : PrefsNew(path, name)
    \/ GetPreferences
    \/ \E key \in PrefKeys, T \in PrefTypes : GetPref(key, T)
    \/ \E key \in PrefKeys, value \in PrefValues \cup {NoneValue} : SetPref(key, value)

SpecPrefs == Init /\ [][NextPrefs]_vars

\* new on every arrangement of files, and set_pref of one key after it; the
\* walk along the redirects goes on while it can.
NextRedirect ==
    \/ \E files \in Arrangements : PrefsPrepare(files)
    \/ \E path \in PathArgs, name \in ScriptNames : PrefsNew(path, name)
    \/ GetPreferences
    \/ \E value \in PrefValues \cup {NoneValue} : SetPref("region", value)

SpecRedirect == Init /\ [][NextRedirect]_vars /\ WF_vars(GetPreferences)

\* ------------------------------------------------------------------ query
\* query(address, record_type): the nameservers of /etc/resolv.conf and the
\* fallback, asked one after the other.  What a nameserver answers is the
\* environment's choice: no connection, no response, or a response.

\* The closure of filter_map in configured_nameservers: the nameserver of a
\* line, "" for None.
nameserver_of(line) ==
    IF line = << >> \/ Head(line) = "#" THEN ""
    ELSE IF Head(line) = "nameserver" /\ Len(line) >= 2 THEN line[2]
    ELSE ""

RECURSIVE nameservers_in(_)
\* content.lines().filter_map(..).collect()
nameservers_in(lines) ==
    IF lines = << >> THEN << >>
    ELSE IF nameserver_of(Head(lines)) = "" THEN nameservers_in(Tail(lines))
    ELSE <<nameserver_of(Head(lines))>> \o nameservers_in(Tail(lines))

\* async fn configured_nameservers()
configured_nameservers(conf) ==
    (IF conf.readable THEN nameservers_in(conf.lines) ELSE << >>)
    \o <<FALLBACK_NAME_SERVER>>

\* fn to_socket_address(nameserver)
to_socket_address(nameserver) ==
    IF nameserver \in IpAddresses
    THEN [ok |-> TRUE, ip |-> nameserver, port |-> DNS_PORT]
    ELSE [ok |-> FALSE, ip |-> "", port |-> 0]

\* Name::from_str(address)
name_from_str(address) == address # "bad..name"

RECURSIVE find_map(_, _)
\* response.answers().iter().find_map(..): the data of the first record of
\* the type asked for, "" for None.
find_map(answers, record_type) ==
    IF answers = << >> THEN ""
    ELSE IF Head(answers).rtype = record_type THEN Head(answers).data
    ELSE find_map(Tail(answers), record_type)

\* No negative response taken for final.
never_final(response) == FALSE

\* if response.header().authoritative()
is_final(response) == response.authoritative

\* What a nameserver can answer.
OutcomesOf(nameserver) ==
    IF to_socket_address(nameserver).ok
    THEN {ConnectFailed, QueryFailed} \cup Responses
    ELSE {ParseFailed}

\* The error an outcome without a record leaves in last_error.
error_of(outcome, record_type) ==
    CASE outcome.kind = "parse_failed" ->
            DnsConnectionError("could not parse name server address")
      [] outcome.kind = "connect_failed" ->
            DnsConnectionError("could not establish connection")
      [] outcome.kind = "query_failed" ->
            DnsConnectionError("could not send query")
      [] OTHER -> DnsRecordNotFound(record_type)

\* The content of /etc/resolv.conf before the call.
DnsPrepare(conf) ==
    /\ dns_pc = "idle"
    /\ dns_call = NoDnsCall
    /\ resolv_conf' = conf
    /\ UNCHANGED <<dns_pc, dns_call, nameservers, tried, last_error, dns_result>>
    /\ UNCHANGED dns_frame

\* query, up to the first turn of the loop.
Query(address, record_type) ==
    /\ dns_pc = "idle"
    /\ dns_call = NoDnsCall
    /\ dns_call' = [address |-> address, record_type |-> record_type]
    /\ IF ~name_from_str(address)
       THEN /\ dns_result' = InvalidDnsRequest
            /\ UNCHANGED <<dns_pc, nameservers>>
       ELSE IF configured_nameservers(resolv_conf) = << >>
       THEN /\ dns_result' = DnsConnectionError("could not query DNS records")
            /\ UNCHANGED <<dns_pc, nameservers>>
       ELSE /\ nameservers' = configured_nameservers(resolv_conf)
            /\ dns_pc' = "loop"
            /\ UNCHANGED dns_result
    /\ UNCHANGED <<resolv_conf, tried, last_error>>
    /\ UNCHANGED dns_frame

\* One turn of the loop over the nameservers, and the return after the last.
QueryNameserver ==
    /\ dns_pc = "loop"
    /\ \E outcome \in OutcomesOf(Head(nameservers)) :
          LET value == find_map(outcome.answers, dns_call.record_type)
              error == error_of(outcome, dns_call.record_type)
          IN  /\ tried' = Append(tried, [nameserver |-> Head(nameservers),
                                         outcome |-> outcome])
              /\ nameservers' = Tail(nameservers)
              /\ IF outcome.kind = "response" /\ value # ""
                 THEN /\ dns_result' = DnsOk(value)
                      /\ dns_pc' = "idle"
                      /\ UNCHANGED last_error
                 ELSE IF outcome.kind = "response" /\ is_final(outcome)
                 THEN /\ dns_result' = error
                      /\ dns_pc' = "idle"
                      /\ UNCHANGED last_error
                 ELSE /\ last_error' = error
                      /\ IF Tail(nameservers) = << >>
                         THEN /\ dns_result' = error
                              /\ dns_pc' = "idle"
                         ELSE UNCHANGED <<dns_result, dns_pc>>
    /\ UNCHANGED <<resolv_conf, dns_call>>
    /\ UNCHANGED dns_frame

DnsStep ==
    \/ \E conf \in ResolvFiles : DnsPrepare(conf)
    \/ \E address \in Addresses, record_type \in RecordTypes : Query(address, record_type)
    \/ QueryNameserver

SpecDns == Init /\ [][DnsStep]_vars

\* ------------------------------------------------------- wildcard_matches
\* The match of one certificate name against the domain asked for, as
\* get_acm_certificate_arn_for_domain makes it: both names normalized, then
\* wildcard_matches.
RECURSIVE trim_end_matches(_, _)
\* str::trim_end_matches(c)
trim_end_matches(s, c) ==
    IF s # << >> /\ s[Len(s)] = c
    THEN trim_end_matches(SubSeq(s, 1, Len(s) - 1), c)
    ELSE s

\* fn normalize_domain(domain)
normalize_domain(domain) == to_lowercase(trim_end_matches(trim(domain), 46))

\* str::ends_with
ends_with(s, t) ==
    Len(t) <= Len(s) /\ SubSeq(s, Len(s) - Len(t) + 1, Len(s)) = t

\* fn wildcard_matches(candidate, target)
wildcard_matches(candidate, target) ==
    IF starts_with(candidate, <<42, 46>>)
    THEN LET suffix == SubSeq(candidate, 3, Len(candidate))
         IN  ends_with(target, suffix) /\ target # suffix
    ELSE FALSE

\* A certificate name and a domain to match.
AcmPrepare(name, domain) ==
    /\ ~acm_call.called
    /\ acm_call' = [called |-> TRUE, name |-> name, domain |-> domain]
    /\ UNCHANGED acm_result
    /\ UNCHANGED acm_frame

\* let target = normalize_domain(domain); let primary_norm =
\* normalize_domain(primary); wildcard_matches(&primary_norm, &target)
AcmMatch ==
    /\ acm_call.called
    /\ ~acm_result.done
    /\ LET target       == normalize_domain(acm_call.domain)
           primary_norm == normalize_domain(acm_call.name)
       IN  acm_result' = [done |-> TRUE, candidate |-> primary_norm,
                          target |-> target,
                          matches |-> wildcard_matches(primary_norm, target)]
    /\ UNCHANGED acm_call
    /\ UNCHANGED acm_frame

AcmStep ==
    \/ \E name \in CertificateNames, domain \in Domains : AcmPrepare(name, domain)
    \/ AcmMatch

SpecAcm == Init /\ [][AcmStep]_vars

\* ------------------------------------------------------- specifications
ExecuteStep ==
    \/ \E op \in ExecuteOps, command \in Commands, io_mode \in IOModes, dir \in DirArgs :
          Execute(op, command, io_mode, dir)
    \/ \E status \in ExitStatuses : ChildExit(status)
    \/ ReadStdout
    \/ ReadStderr
    \/ Wait

BackgroundStep ==
    \/ \E command \in Commands, dir \in DirArgs : ExecuteBackground(command, dir)
    \/ \E i \in 1..MaxBackground, status \in ExitStatuses : BackgroundExit(i, status)
    \/ ResolveBegin
    \/ ResolvePoll
    \/ ResolveWait

CommandStep ==
    \/ \E program \in ProgramNames, lookup_runs \in BOOLEAN : HasCommand(program, lookup_runs)
    \/ \E program \in ProgramNames, lookup_runs \in BOOLEAN : RequireCommand(program, lookup_runs)

WriteStep == \E s \in Streams, b \in ChildBytes : ChildWrite(s, b)

Next ==
    \/ ExecuteStep \/ WriteStep \/ BackgroundStep \/ CommandStep
    \/ EditStep \/ IamStep \/ CloseStep \/ UmountStep \/ PrefsStep
    \/ DnsStep \/ AcmStep

Spec == Init /\ [][Next]_vars

\* execute alone, with a child that writes.
NextExec == ExecuteStep \/ WriteStep

SpecExec == Init /\ [][NextExec]_vars

\* The background list with every operation of the executor around it; the
\* foreground children write nothing.
NextBg == BackgroundStep \/ ExecuteStep \/ CommandStep

SpecBg == Init /\ [][NextBg]_vars

\* execute of a command that is a script of writes: it writes to the streams
\* the script names, in that order, a write to a full pipe waiting for room,
\* and then ends.  The longest script is one write more than a pipe holds.
MaxScript == PipeCap + 1

Scripts == UNION {[1..n -> Streams] : n \in 0..MaxScript}

InitLive == InitExecutor /\ script \in Scripts /\ InitEdit /\ InitIam /\ InitClose /\ InitPair
        /\ InitAcm
        /\ InitDns
        /\ InitPrefs
        /\ InitUmount

\* What a script writes: the same byte every time.
ScriptBytes == {97}

ScriptWriteStep == \E s \in Streams, b \in ScriptBytes : ChildWrite(s, b)

NextLive == ExecuteStep \/ ScriptWriteStep

\* A read that does not fail returns as soon as there are bytes in the pipe
\* or the pipe is closed, wait returns once the child has ended, and the
\* child goes on whenever it is not held up by a full pipe.
Fairness ==
    /\ WF_vars(ReadStdout /\ read_failed' = read_failed)
    /\ WF_vars(ReadStderr /\ read_failed' = read_failed)
    /\ WF_vars(Wait)
    /\ WF_vars(ScriptWriteStep)
    /\ WF_vars(\E status \in ExitStatuses : ChildExit(status))

SpecLive == InitLive /\ [][NextLive]_vars /\ Fairness

\* ================================================================ claims
\* The bytes the foreground child wrote to one stream, in order.
RECURSIVE StreamBytes(_, _)
StreamBytes(w, s) ==
    IF w = << >> THEN << >>
    ELSE IF Head(w)[1] = s THEN <<Head(w)[2]>> \o StreamBytes(Tail(w), s)
    ELSE StreamBytes(Tail(w), s)

\* The text the foreground child wrote: its stdout, then its stderr.
TextWritten == from_utf8_lossy(StreamBytes(written, "stdout"))
                  \o from_utf8_lossy(StreamBytes(written, "stderr"))

ExecuteReturned == pc = "idle" /\ call.op \in ExecuteOps

ResolveReturned == pc = "idle" /\ call.op = "resolve_background_processes"

NonZeroCode(status) == status.signal = 0 /\ status.code > 0

\* The directories that exist.
DirExists(d) == d \in {NoDir, ".", "/work", "/link"}

\* C1: in the modes StreamOutput, Silent and Mute, when the child ends with
\* exit code 0 and no read failed, execute returns the text the child wrote,
\* trimmed, whatever the mode.
C1_ReturnsTrimmedText ==
    ( /\ ExecuteReturned
      /\ call.io_mode # "Attach"
      /\ child.status = Exited(0)
      /\ result.kind = "Ok"
      /\ ~read_failed )
    => result.value = trim(TextWritten)

\* C2: under Attach a successful execute returns the empty string, whatever
\* the child wrote.
C2_AttachReturnsEmpty ==
    (ExecuteReturned /\ call.io_mode = "Attach" /\ result.kind = "Ok")
    => result.value = << >>

\* An Attach call that returned Ok after its child wrote to both streams.
C2_Witness ==
    /\ ExecuteReturned
    /\ call.io_mode = "Attach"
    /\ result.kind = "Ok"
    /\ StreamBytes(written, "stdout") # << >>
    /\ StreamBytes(written, "stderr") # << >>

\* C3: when the child ends with a non-zero exit code and no read failed, the
\* TtyCommandFailed error of execute carries the child's exit status and, in
\* the capturing modes, everything the child wrote (nothing under Attach).
C3_FailureCarriesStatusAndOutput ==
    ( /\ ExecuteReturned
      /\ NonZeroCode(child.status)
      /\ result.kind = "TtyCommandFailed"
      /\ ~read_failed )
    => /\ result.status = child.status
       /\ result.value = IF call.io_mode = "Attach" THEN << >> ELSE TextWritten

\* The children resolve_background_processes took out of the list: those it
\* visited, then those it dropped unvisited.
DrainedCount == Len(polled) + Len(processes)

\* C4 as stated: resolving one background child returns only once the child
\* has ended, and returns an error exactly when the child ended with a
\* non-zero exit code.
C4_ErrorIffNonZeroExit ==
    (ResolveReturned /\ DrainedCount = 1)
    => /\ Len(polled) = 1
       /\ polled[1].state = "exited"
       /\ (result.kind # "Ok") <=> NonZeroCode(polled[1].status)

\* C4 amended: resolving one background child returns only once the child has
\* ended unless waiting on it fails; it returns TtyBackgroundCommandFailed
\* with the child's status exactly when the child ended with a non-zero exit
\* code, Ok when it ended with code 0 or by a signal, and TtyExecuteError
\* exactly when the wait failed.
C4_ErrorIffNonZeroExitOrWaitFailed ==
    (ResolveReturned /\ DrainedCount = 1)
    => /\ Len(polled) = 1
       /\ polled[1].wait \in {"Ok", "Err"}
       /\ polled[1].wait = "Err" <=> result = TtyExecuteError
       /\ polled[1].wait = "Ok" =>
             /\ polled[1].state = "exited"
             /\ result = IF NonZeroCode(polled[1].status)
                         THEN TtyBackgroundCommandFailed(polled[1].status)
                         ELSE Ok(<< >>)

\* One child, still running when polled, then killed by a signal: Ok.
C4_Witness ==
    /\ ResolveReturned
    /\ DrainedCount = 1
    /\ Len(polled) = 1
    /\ polled[1].try_wait = "None"
    /\ polled[1].wait = "Ok"
    /\ polled[1].status = Signaled(9)
    /\ result = Ok(<< >>)

\* C5: when resolve_background_processes returns and no wait failed, no
\* drained child is left unvisited and every drained child has ended.
C5_AllDrainedAndAwaited ==
    ( /\ ResolveReturned
      /\ \A i \in 1..Len(polled) : polled[i].wait = "Ok" )
    => /\ background_processes = << >>
       /\ processes = << >>
       /\ \A i \in 1..Len(polled) : polled[i].state = "exited"

\* C6: after resolve_background_processes returns, with Ok or with an error,
\* the list is empty, and a resolve_background_processes called right after
\* visits nothing and returns Ok at once.
C6_ListEmptyAfterResolve ==
    /\ [](ResolveReturned => background_processes = << >>)
    /\ [][ (ResolveReturned /\ call'.op = "resolve_background_processes")
           => /\ pc' = "idle"
              /\ result' = Ok(<< >>)
              /\ polled' = << >>
              /\ processes' = << >>
              /\ background_processes' = << >> ]_vars

\* A resolve that returned an error with a child dropped unvisited.
C6_Witness ==
    /\ ResolveReturned
    /\ result.kind = "TtyBackgroundCommandFailed"
    /\ processes # << >>
    /\ background_processes = << >>

\* The k-th child visited is the k-th registered, and the children not yet
\* visited follow in the order of registration.
VisitedInOrder ==
    /\ \A i \in 1..Len(polled) : polled[i].pid = i
    /\ \A j \in 1..Len(processes) :
          processes[j].pid = j + Len(polled) - (IF pc = "resolve_wait" THEN 1 ELSE 0)

\* C7 as stated: the children are visited in the order of registration, and
\* when two of them ended with a non-zero code the error returned is
\* TtyBackgroundCommandFailed with the status of the earliest of them.
C7_FirstFailureReported ==
    LET all  == [i \in 1..DrainedCount |->
                    IF i <= Len(polled) THEN polled[i].status
                    ELSE processes[i - Len(polled)].status]
        fail == {i \in 1..DrainedCount : NonZeroCode(all[i])}
    IN  (ResolveReturned /\ Cardinality(fail) >= 2)
        => /\ VisitedInOrder
           /\ result.kind = "TtyBackgroundCommandFailed"
           /\ \E i \in fail : /\ \A j \in fail : i <= j
                              /\ result.status = all[i]

\* C7 amended: the children are visited one at a time in the order of
\* registration; a TtyBackgroundCommandFailed error carries the status of the
\* earliest-registered child that ended with a non-zero code, and it is what
\* is returned when a visited child ended with a non-zero code, unless the
\* wait on a child fails first and TtyExecuteError is returned.
C7_FirstFailureReportedUnlessWaitFails ==
    /\ pc \in {"resolve_poll", "resolve_wait"} => VisitedInOrder
    /\ ResolveReturned =>
          LET n == Len(polled)
          IN  /\ VisitedInOrder
              /\ \A i \in 1..(n - 1) :
                    polled[i].wait = "Ok" /\ ~NonZeroCode(polled[i].status)
              /\ result.kind = "TtyBackgroundCommandFailed" =>
                    /\ n >= 1
                    /\ polled[n].wait = "Ok"
                    /\ NonZeroCode(polled[n].status)
                    /\ result.status = polled[n].status
              /\ (n >= 1 /\ polled[n].wait = "Ok" /\ NonZeroCode(polled[n].status))
                    => result = TtyBackgroundCommandFailed(polled[n].status)
              /\ (n >= 1 /\ polled[n].wait = "Err") => result = TtyExecuteError

\* Two children that ended with codes 1 and 2: the error carries code 1.
C7_Witness ==
    /\ ResolveReturned
    /\ result = TtyBackgroundCommandFailed(Exited(1))
    /\ Len(polled) = 1
    /\ Len(processes) = 1
    /\ processes[1].status = Exited(2)

\* C8: a successful execute_background puts exactly one running child at the
\* end of the list and returns; when the directory does not resolve or the
\* spawn fails it returns that error and leaves the list as it was.
C8_AppendsOneOrLeavesList ==
    [][ (pc = "idle" /\ call'.op = "execute_background")
        => /\ pc' = "idle"
           /\ IF DirExists(call'.dir) /\ call'.command \in Installed
              THEN /\ result' = Ok(<< >>)
                   /\ Len(background_processes') = Len(background_processes) + 1
                   /\ SubSeq(background_processes', 1, Len(background_processes))
                         = background_processes
                   /\ background_processes'[Len(background_processes')].state = "running"
              ELSE /\ result' = IF DirExists(call'.dir) THEN TtyExecuteError ELSE IOError
                   /\ background_processes' = background_processes ]_vars

\* A second child appended behind the first, both still running.
C8_Witness ==
    /\ pc = "idle"
    /\ call.op = "execute_background"
    /\ result = Ok(<< >>)
    /\ Len(background_processes) = 2
    /\ background_processes[1].pid = 1
    /\ background_processes[2].pid = 2
    /\ background_processes[2].state = "running"

\* C9: only execute_background and resolve_background_processes change the
\* list, and its length is the number of successful execute_background calls
\* since the last resolve_background_processes.
C9_ListOwnedByBackgroundOperations ==
    /\ [](Len(background_processes) = registered)
    /\ [][ background_processes' # background_processes
           => /\ pc = "idle"
              /\ call'.op \in {"execute_background", "resolve_background_processes"} ]_vars

\* An execute that ran to its end while two children were in the list.
C9_Witness ==
    /\ ExecuteReturned
    /\ result.kind = "Ok"
    /\ Len(background_processes) = 2
    /\ registered = 2

\* C10: with a directory that does not resolve, execute and
\* execute_background return IOError and spawn nothing; a child that is
\* spawned runs in the directory asked for.
C10_MissingDirIsIOError ==
    /\ []( (call.op \in ExecuteOps \cup {"execute_background"} /\ ~DirExists(call.dir))
           => /\ pc = "idle"
              /\ result = IOError
              /\ child.state = "none" )
    /\ []( child.state # "none"
           => child.cwd = IF call.dir = NoDir THEN CurrentDir ELSE "/work" )
    /\ [][ (pc = "idle" /\ call'.op = "execute_background")
           => IF DirExists(call'.dir)
              THEN \A i \in 1..Len(background_processes') :
                      i > Len(background_processes) =>
                         background_processes'[i].cwd =
                            IF call'.dir = NoDir THEN CurrentDir ELSE "/work"
              ELSE background_processes' = background_processes ]_vars

\* execute_background refused for a missing directory, the list as it was.
C10_Witness ==
    /\ pc = "idle"
    /\ call.op = "execute_background"
    /\ call.dir = "/missing"
    /\ result = IOError
    /\ Len(background_processes) = 1

\* C11 (as stated): every failure execute returns is a TtyExecuteError or a
\* TtyCommandFailed.
C11_TwoErrorKinds ==
    (ExecuteReturned /\ result.kind # "Ok")
    => result.kind \in {"TtyExecuteError", "TtyCommandFailed"}

\* C11: every failure execute returns is one of three kinds: IOError exactly
\* when the directory does not resolve, TtyExecuteError when the spawn or the
\* wait failed, TtyCommandFailed when the child that was waited on did not
\* end with success.
C11_ThreeErrorKinds ==
    ExecuteReturned
    => /\ result.kind \in {"Ok", "IOError", "TtyExecuteError", "TtyCommandFailed"}
       /\ (result.kind = "IOError") <=> ~DirExists(call.dir)
       /\ result.kind = "TtyExecuteError"
             => \/ child.state = "none" /\ call.command \notin Installed
                \/ child.state # "none"
       /\ result.kind = "TtyCommandFailed"
             => child.state = "exited" /\ ~success(child.status)
       /\ result.kind = "Ok"
             => child.state = "exited" /\ success(child.status)

\* execute refused for a directory that does not resolve, the command being
\* one that could have been spawned.
C11_Witness ==
    /\ ExecuteReturned
    /\ result.kind = "IOError"
    /\ call.command \in Installed
    /\ call.io_mode = "Mute"

\* C12: a spawn that fails makes execute return TtyExecuteError with no
\* child; TtyCommandFailed is returned only for a child that was spawned,
\* waited on and found ended, and carries that child's status.
C12_SpawnFailureIsExecuteError ==
    ExecuteReturned
    => /\ (DirExists(call.dir) /\ call.command \notin Installed)
             => (result = TtyExecuteError /\ child.state = "none")
       /\ result.kind = "TtyCommandFailed"
             => /\ call.command \in Installed
                /\ child.state = "exited"
                /\ result.status = child.status

\* execute of a command that is not installed, in a directory that exists.
C12_Witness ==
    /\ ExecuteReturned
    /\ call.command = ZZ
    /\ DirExists(call.dir)
    /\ result = TtyExecuteError
    /\ child.state = "none"

\* The bytes the foreground child wrote, in the order it wrote them.
RECURSIVE ArrivalOrder(_)
ArrivalOrder(w) ==
    IF w = << >> THEN << >> ELSE <<Head(w)[2]>> \o ArrivalOrder(Tail(w))

\* Every byte the child wrote is a character on its own.
AsciiWritten == \A i \in 1..Len(written) : written[i][2] < 128

\* C13: in the modes StreamOutput, Silent and Mute the text execute returns,
\* or attaches to TtyCommandFailed, holds the bytes of stdout and stderr in
\* the order the child wrote them.
C13_InterleavedInArrivalOrder ==
    ( /\ ExecuteReturned
      /\ call.io_mode # "Attach"
      /\ child.state = "exited"
      /\ ~read_failed
      /\ AsciiWritten
      /\ result.kind \in {"Ok", "TtyCommandFailed"} )
    => result.value = IF result.kind = "Ok"
                      THEN trim(from_utf8_lossy(ArrivalOrder(written)))
                      ELSE from_utf8_lossy(ArrivalOrder(written))

\* A chunk was taken from the stdout pipe / the stderr pipe in this step.
StdoutChunkRead == pc = "read_stdout" /\ Len(pipe_out') < Len(pipe_out)

StderrChunkRead == pc = "read_stderr" /\ Len(pipe_err') < Len(pipe_err)

\* C14: a chunk read from stdout is printed exactly under StreamOutput, a
\* chunk read from stderr exactly under StreamOutput and Silent, nothing is
\* printed under Mute, and every chunk read is appended to collected_output
\* whether it was printed or not.
C14_EchoPolicy ==
    [][ /\ StdoutChunkRead
           => LET n      == Len(pipe_out) - Len(pipe_out')
                  output == from_utf8_lossy(SubSeq(pipe_out, 1, n))
              IN  /\ collected_output' = collected_output \o output
                  /\ echoed'.stderr = echoed.stderr
                  /\ echoed'.stdout = IF call.io_mode = "StreamOutput"
                                      THEN echoed.stdout \o output
                                      ELSE echoed.stdout
        /\ StderrChunkRead
           => LET n      == Len(pipe_err) - Len(pipe_err')
                  output == from_utf8_lossy(SubSeq(pipe_err, 1, n))
              IN  /\ collected_output' = collected_output \o output
                  /\ echoed'.stdout = echoed.stdout
                  /\ echoed'.stderr = IF call.io_mode \in {"StreamOutput", "Silent"}
                                      THEN echoed.stderr \o output
                                      ELSE echoed.stderr
        /\ ~(StdoutChunkRead \/ StderrChunkRead)
           => (echoed' = echoed \/ echoed' = NoEcho)
        /\ call'.io_mode = "Mute" => echoed' = NoEcho ]_vars

\* A Silent call that read a chunk of each stream: stderr printed, stdout
\* not, both collected.
C14_Witness ==
    /\ call.op \in ExecuteOps
    /\ call.io_mode = "Silent"
    /\ StreamBytes(written, "stdout") # << >>
    /\ StreamBytes(written, "stderr") # << >>
    /\ pipe_out = << >>
    /\ pipe_err = << >>
    /\ echoed.stdout = << >>
    /\ echoed.stderr # << >>
    /\ Len(collected_output) = 2

\* C15: one io_mode wires the three streams of the child of execute: all
\* inherited under Attach; under StreamOutput, Silent and Mute stdin null
\* and stdout and stderr piped.
C15_OneModeGovernsAllStreams ==
    (call.op \in ExecuteOps /\ child.state # "none")
    => IF call.io_mode = "Attach"
       THEN child.stdin = "inherit" /\ child.stdout = "inherit" /\ child.stderr = "inherit"
       ELSE child.stdin = "null" /\ child.stdout = "piped" /\ child.stderr = "piped"

\* A child running under Mute with no stdin.
C15_Witness ==
    /\ call.op \in ExecuteOps
    /\ call.io_mode = "Mute"
    /\ child.state = "running"
    /\ child.stdin = "null"
    /\ child.stdout = "piped"

\* C16: an error of the operating system inside execute or
\* resolve_background_processes makes the call return an error: a read of a
\* pipe that failed, and a poll of a background child that failed, are not
\* followed by an Ok result.
C16_NoErrorSwallowed ==
    /\ (ExecuteReturned /\ read_failed) => result.kind # "Ok"
    /\ ( /\ ResolveReturned
         /\ \E i \in 1..Len(polled) : polled[i].try_wait = "Err" )
       => result.kind # "Ok"

\* The name has no character other than whitespace.
Blank(program) == \A i \in 1..Len(program) : is_whitespace(program[i])

\* The lookup of the name ran and exited with 0.
LookupSucceeded == call.lookup = "ran" /\ trim(call.command) \in Installed

\* C17: has_command is true exactly when the lookup ran and exited with 0,
\* so it is false when the lookup exits non-zero or cannot be run, and for
\* a blank name it is false with no lookup run; require_command returns Ok
\* exactly when has_command is true and otherwise
\* TtyRequiredCommandMissing naming the program it was given.
C17_RequireCommandIffHasCommand ==
    /\ (pc = "idle" /\ call.op = "has_command")
       => /\ result = BoolResult(LookupSucceeded)
          /\ Blank(call.command) <=> call.lookup = "none"
          /\ Blank(call.command) => result = BoolResult(FALSE)
    /\ (pc = "idle" /\ call.op = "require_command")
       => /\ result = IF LookupSucceeded THEN Ok(<< >>)
                      ELSE TtyRequiredCommandMissing(call.command)
          /\ Blank(call.command) <=> call.lookup = "none"

\* require_command of a name that is one space: refused with no lookup run.
C17_Witness ==
    /\ pc = "idle"
    /\ call.op = "require_command"
    /\ call.command = <<32>>
    /\ call.lookup = "none"
    /\ result = TtyRequiredCommandMissing(<<32>>)

EditReturned == edit_pc = "idle" /\ edit_result.kind # "Pending"

\* C18 (as stated): whatever op returned, after with_tmp_edits_to_file
\* returns the file at path holds what it held before the call, op having
\* run with the file holding edit(original); when the write of the edited
\* contents fails the original is put back and an error is returned, op not
\* having run.
C18_OriginalAlwaysRestored ==
    (EditReturned /\ edit_call.original.exists)
    => /\ file = edit_call.original
       /\ op_saw # Absent
             => op_saw = [exists |-> TRUE,
                          text |-> apply_edit(edit_call.edit, edit_call.original.text)]
       /\ edit_result.from = "write"
             => (edit_result.kind = "TemporaryFileError" /\ op_saw = Absent)

\* C18: when with_tmp_edits_to_file returns what op returned, the file at
\* path holds what it held before the call, nothing is left at backup_path
\* and op ran with the file holding edit(original); when the write of the
\* edited contents fails, op is not run and an error is returned; whenever
\* the file at path is not as before the call, a move back from the backup
\* has failed, the call returned an error and the backup holds the original.
C18_RestoredUnlessMoveBackFails ==
    (EditReturned /\ edit_call.original.exists)
    => /\ op_saw # Absent
             => op_saw = [exists |-> TRUE,
                          text |-> apply_edit(edit_call.edit, edit_call.original.text)]
       /\ edit_result.kind \in {"Ok", "Err"}
             => (file = edit_call.original /\ backup = Absent /\ op_saw # Absent)
       /\ edit_result.from = "write"
             => (edit_result.kind = "TemporaryFileError" /\ op_saw = Absent)
       /\ edit_result.from \in {"read", "backup"}
             => (file = edit_call.original /\ op_saw = Absent)
       /\ file # edit_call.original
             => /\ edit_result.kind = "TemporaryFileError"
                /\ edit_result.from \in {"write", "restore"}
                /\ backup = edit_call.original

\* op failed on an edited file that it rewrote, and the original is back.
C18_Witness ==
    /\ EditReturned
    /\ edit_result = OpResult("Err")
    /\ edit_call.original = [exists |-> TRUE, text |-> <<97, 98>>]
    /\ op_saw = [exists |-> TRUE, text |-> <<97, 98, 120>>]
    /\ file = edit_call.original
    /\ backup = Absent

IamReturned == iam_pc = "idle" /\ iam_result.kind # "Pending"

ActiveKeys(keys) == IdsWhere(keys, {"Active"})

\* The call deleted no key that was active.
NoActiveKeyDeleted ==
    \A i \in 1..Len(iam_deleted) : iam_deleted[i].status # "Active"

\* The call made no key.
NoKeyCreated == \A i \in 1..Len(iam_keys) : iam_keys[i].id # NewKey.id

\* C19 (as stated): with KeyRotation::None, create_access_key_for_user
\* deletes no active key, and it returns IamAccessKeyLimitReached, having
\* made no key, exactly when the user held 2 active keys at the call.
C19_LimitReachedIffTwoActiveKeys ==
    (IamReturned /\ iam_call.rotation = "None")
    => /\ NoActiveKeyDeleted
       /\ (iam_result.kind = "IamAccessKeyLimitReached")
             <=> (Len(ActiveKeys(iam_call.keys)) = 2)
       /\ iam_result.kind = "IamAccessKeyLimitReached" => NoKeyCreated

\* C19: with KeyRotation::None, create_access_key_for_user deletes no
\* active key; IamAccessKeyLimitReached is returned only for a user that
\* held 2 active keys at the call; for such a user the call makes no key,
\* deletes nothing and returns IamAccessKeyLimitReached, or IamError when a
\* list_access_keys request failed.
C19_LimitReachedOrRequestFailed ==
    (IamReturned /\ iam_call.rotation = "None")
    => /\ NoActiveKeyDeleted
       /\ iam_result.kind = "IamAccessKeyLimitReached"
             => /\ Len(ActiveKeys(iam_call.keys)) = 2
                /\ iam_result.key_count = 2
       /\ Len(ActiveKeys(iam_call.keys)) = 2
             => /\ iam_result.kind \in {"IamAccessKeyLimitReached", "IamError"}
                /\ NoKeyCreated
                /\ iam_keys = iam_call.keys
                /\ iam_deleted = << >>

\* A user with two active keys refused under KeyRotation::None.
C19_Witness ==
    /\ IamReturned
    /\ iam_call.rotation = "None"
    /\ Len(ActiveKeys(iam_call.keys)) = 2
    /\ iam_result = IamAccessKeyLimitReached(2)
    /\ iam_keys = iam_call.keys

\* C20: execute of a command that writes a finite script and ends, in one of
\* the modes StreamOutput, Silent and Mute, returns in the end.
C20_EventuallyReturns ==
    (pc # "idle" /\ call.io_mode # "Attach") ~> (pc = "idle")

CloseDone == close_report # "none"

\* C22: Tty::close runs resolve_background_processes whatever the final
\* result is; it prints SUCCESS only when the final result and the cleanup
\* are both Ok; otherwise it prints an error and exits with status 1, and
\* the error is the script's own whenever the final result is an error, also
\* when the cleanup failed too.
C22_CloseReportsScriptErrorFirst ==
    /\ CloseDone
       => /\ ResolveReturned
          /\ background_processes = << >>
          /\ (close_report = "SUCCESS")
                <=> (close_final.kind = "Ok" /\ result.kind = "Ok")
          /\ (exit_status = "exit(1)") <=> (close_report # "SUCCESS")
          /\ close_final.kind # "Ok" => close_report = close_final.kind
          /\ (close_final.kind = "Ok" /\ result.kind # "Ok")
                => close_report = result.kind
    /\ exit_status # "running" => CloseDone

\* close of a failed script whose cleanup failed as well.
C22_Witness ==
    /\ CloseDone
    /\ close_final = ScriptError
    /\ result.kind = "TtyBackgroundCommandFailed"
    /\ close_report = "ScriptError"
    /\ exit_status = "exit(1)"

UmountReturned == umount_call.called /\ umount_pc = "idle"

\* The first attempt failed and umount printed that nothing is mounted there.
NotMountedFailure(r) ==
    /\ r.kind = "TtyCommandFailed"
    /\ r.value \in {OutNotMounted, OutNotCurrentlyMounted}

\* The first attempt failed and umount printed that permission is lacking.
PermissionFailure(r) ==
    /\ r.kind = "TtyCommandFailed"
    /\ r.value \in {OutPermissionDenied, OutOperationNotPermitted}

\* C24: umount returns Ok when the first attempt fails with a "not mounted"
\* or "not currently mounted" message; "sudo umount" is run only when
\* sudo_fallback is true and the first attempt failed with "permission
\* denied" or "operation not permitted"; in every other failure umount
\* returns the first attempt's error; it never runs more than two commands.
C24_UmountFallback ==
    /\ Len(attempts) <= 2
    /\ \A i \in 1..Len(attempts) :
          attempts[i].command = (IF i = 1 THEN "umount" ELSE "sudo")
    /\ Len(attempts) = 2 =>
          /\ umount_call.sudo_fallback
          /\ PermissionFailure(attempts[1].result)
    /\ UmountReturned =>
          LET first == attempts[1].result
          IN  /\ NotMountedFailure(first) =>
                    umount_result = Ok(<< >>) /\ Len(attempts) = 1
              /\ ( /\ first.kind # "Ok"
                   /\ ~NotMountedFailure(first)
                   /\ ~(umount_call.sudo_fallback /\ PermissionFailure(first)) )
                 => umount_result = first

\* umount fell back on sudo after "Permission denied", and sudo succeeded.
C24_Witness ==
    /\ UmountReturned
    /\ Len(attempts) = 2
    /\ attempts[1].result = TtyCommandFailed(Exited(1), OutPermissionDenied)
    /\ umount_result = Ok(<< >>)

\* The rotations that make room for the new key.
RotatingModes == {"DeleteOldest", "DeleteNewest", "DeleteAll"}

\* The call has come past the loop over the inactive keys and the second
\* list_access_keys.
PastInactiveCleanup ==
    \/ iam_pc \in {"delete_all", "delete_one", "create"}
    \/ IamReturned /\ iam_result.kind \in {"Ok", "IamAccessKeyNullAfterCreate",
                                           "IamAccessKeyLimitReached"}

\* Every key that was inactive at the call has been deleted.
InactiveKeysDeleted ==
    \A i \in 1..Len(iam_call.keys) :
        iam_call.keys[i].status = "Inactive"
        => /\ \E j \in 1..Len(iam_deleted) : iam_deleted[j] = iam_call.keys[i]
           /\ \A j \in 1..Len(iam_keys) : iam_keys[j].id # iam_call.keys[i].id

\* C25: under DeleteOldest, DeleteNewest and DeleteAll, for a user that held
\* at most 2 keys at the call, the user holds at most 1 key when
\* create_access_key is sent, and none under DeleteAll; after a successful
\* call the user holds at most 2 keys; under every rotation the inactive keys
\* are deleted before anything else is decided.
C25_RoomForTheNewKey ==
    /\ ( /\ iam_pc = "create"
         /\ iam_call.rotation \in RotatingModes
         /\ Len(iam_call.keys) <= 2 )
       => /\ Len(iam_keys) <= 1
          /\ iam_call.rotation = "DeleteAll" => iam_keys = << >>
    /\ ( /\ IamReturned
         /\ iam_result.kind = "Ok"
         /\ iam_call.rotation \in RotatingModes
         /\ Len(iam_call.keys) <= 2 )
       => /\ Len(iam_keys) <= 2
          /\ \E i \in 1..Len(iam_keys) : iam_keys[i].id = iam_result.key
    /\ PastInactiveCleanup => InactiveKeysDeleted

\* A user with two active keys, the older one deleted under DeleteOldest and
\* the new key made.
C25_Witness ==
    /\ IamReturned
    /\ iam_call.rotation = "DeleteOldest"
    /\ Len(ActiveKeys(iam_call.keys)) = 2
    /\ Len(iam_deleted) = 1
    /\ iam_result.kind = "Ok"
    /\ Len(iam_keys) = 2

\* What the store holds for a script and a key.
NoYaml == [tag |-> "absent", text |-> ""]

Stored(scripts, name, key) ==
    IF name \in DOMAIN scripts /\ key \in DOMAIN scripts[name]
    THEN scripts[name][key]
    ELSE NoYaml

\* The last call was set_pref, and a get_pref of the same key came after it.
GotAfterSet ==
    /\ prefs_call.op = "set_pref"
    /\ prefs_got # NoGot
    /\ prefs_got.key = prefs_call.key

\* After set_pref(key, Some(v)), get_pref(key) at the type of v returns v;
\* after set_pref(key, None) it returns None, and the script has an entry in
\* the store only if it has a key left.
SetThenGet ==
    /\ (GotAfterSet /\ prefs_call.value # NoneValue
                    /\ prefs_got.type = prefs_call.value.type)
       => prefs_got.value = prefs_call.value
    /\ (GotAfterSet /\ prefs_call.value = NoneValue)
       => prefs_got.value = NoneValue
    /\ (prefs_call.op = "set_pref" /\ prefs_call.value = NoneValue)
       => /\ Stored(preferences, script_name, prefs_call.key) = NoYaml
          /\ script_name \in DOMAIN preferences
                => DOMAIN preferences[script_name] # {}

\* A step of get_pref or set_pref leaves every other key of the script and
\* every other script as it was.
OthersKept ==
    HasPreferences
    => /\ \A name \in ScriptNames, key \in PrefKeys :
             (name # script_name \/ key # prefs_call'.key)
             => Stored(preferences', name, key) = Stored(preferences, name, key)
       /\ \A name \in ScriptNames \ {script_name} :
             (name \in DOMAIN preferences') <=> (name \in DOMAIN preferences)
       /\ prefs_call' = prefs_call => preferences' = preferences

\* C26: after set_pref(key, Some(v)) a get_pref(key) returns v; after
\* set_pref(key, None) a get_pref(key) returns None, and a script whose last
\* key was removed has no entry left in the store; neither call changes what
\* is stored under other keys or for other script names.
C26_SetThenGet == []SetThenGet /\ [][OthersKept]_vars

\* The last key of "deploy" removed: get_pref returns None, "deploy" has no
\* entry left and "build" has kept its own.
C26_Witness ==
    /\ GotAfterSet
    /\ prefs_call.value = NoneValue
    /\ prefs_got.value = NoneValue
    /\ script_name = "deploy"
    /\ DOMAIN preferences = {"build"}
    /\ prefs_files["/etc/prefs"].kind = "yaml"
    /\ DOMAIN prefs_files["/etc/prefs"].scripts = {"build"}

\* The file at the end of the chain of redirects that starts at a path, for
\* a chain that ends.
RECURSIVE ChainEnd(_, _, _)
ChainEnd(files, path, fuel) ==
    IF fuel = 0 \/ files[path].kind # "redirect" THEN path
    ELSE ChainEnd(files, files[path].target, fuel - 1)

\* new has returned an object.
NewReturnedOk == HasPreferences /\ prefs_call.op = "new"

\* The path set_pref writes is the end of the chain, and no redirect file.
WritesChainEnd ==
    NewReturnedOk
    => /\ preferences_path = ChainEnd(prefs_files, expand(prefs_call.path),
                                      Cardinality(Paths))
       /\ prefs_files[preferences_path].kind # "redirect"

\* C27: UserPreferences::new terminates for every arrangement of preference
\* files, those with a cycle of "redirect: " lines included, and the path
\* set_pref writes afterwards is the last file of the chain of redirects,
\* never a redirect file.
C27_NewTerminates ==
    /\ (prefs_pc = "get_preferences") ~> (prefs_pc = "idle")
    /\ []WritesChainEnd

\* query has parsed the address and entered on the nameservers.
QueryStarted == dns_call # NoDnsCall /\ name_from_str(dns_call.address)

QueryReturned == QueryStarted /\ dns_pc = "idle"

\* The lines of /etc/resolv.conf that name a nameserver, by position.
NameserverLines ==
    IF resolv_conf.readable
    THEN {i \in 1..Len(resolv_conf.lines) :
             /\ Len(resolv_conf.lines[i]) >= 2
             /\ resolv_conf.lines[i][1] = "nameserver"}
    ELSE {}

\* The j-th of them in file order.
NthNameserverLine(j) ==
    CHOOSE i \in NameserverLines :
        Cardinality({k \in NameserverLines : k < i}) = j - 1

\* The nameservers in the order the claim gives: those of the file, then
\* the fallback.
InFileOrderThenFallback(j) ==
    IF j = Cardinality(NameserverLines) + 1 THEN "8.8.8.8"
    ELSE resolv_conf.lines[NthNameserverLine(j)][2]

\* A response with a record of the type asked for, and that record.
Yields(outcome) ==
    /\ outcome.kind = "response"
    /\ \E i \in 1..Len(outcome.answers) :
          outcome.answers[i].rtype = dns_call.record_type

FirstMatch(outcome) ==
    LET i == CHOOSE i \in 1..Len(outcome.answers) :
                /\ outcome.answers[i].rtype = dns_call.record_type
                /\ \A j \in 1..(i - 1) :
                      outcome.answers[j].rtype # dns_call.record_type
    IN  outcome.answers[i].data

\* An authoritative response without such a record.
AuthoritativeNegative(outcome) ==
    /\ outcome.kind = "response"
    /\ outcome.authoritative
    /\ ~Yields(outcome)

\* C28: query asks the nameservers of /etc/resolv.conf in file order and
\* then the fallback 8.8.8.8; it returns the first matching record of the
\* first response that has one; it returns DnsRecordNotFound at the first
\* authoritative response without one, asking no later nameserver; and when
\* no nameserver yields a record it returns the error of the last nameserver
\* asked.
C28_NameserversInOrder ==
    QueryStarted
    => /\ Len(tried) <= Cardinality(NameserverLines) + 1
       /\ \A i \in 1..Len(tried) : tried[i].nameserver = InFileOrderThenFallback(i)
       /\ \A i \in 1..(Len(tried) - 1) :
             /\ ~Yields(tried[i].outcome)
             /\ ~AuthoritativeNegative(tried[i].outcome)
       /\ QueryReturned
          => LET last == tried[Len(tried)].outcome
             IN  /\ Len(tried) >= 1
                 /\ Yields(last) => dns_result = DnsOk(FirstMatch(last))
                 /\ AuthoritativeNegative(last)
                       => dns_result = DnsRecordNotFound(dns_call.record_type)
                 /\ (~Yields(last) /\ ~AuthoritativeNegative(last))
                       => /\ Len(tried) = Cardinality(NameserverLines) + 1
                          /\ tried[Len(tried)].nameserver = "8.8.8.8"
                          /\ dns_result = error_of(last, dns_call.record_type)

\* The first of two nameservers answers with authority that there is no such
\* record: query returns DnsRecordNotFound and the fallback is not asked.
C28_Witness ==
    /\ QueryReturned
    /\ Cardinality(NameserverLines) = 1
    /\ Len(tried) = 1
    /\ tried[1].nameserver = "1.1.1.1"
    /\ AuthoritativeNegative(tried[1].outcome)
    /\ dns_result = DnsRecordNotFound(dns_call.record_type)

\* C29: a certificate name "*.S" matches a target exactly when the target
\* ends with "." followed by S, that is, when it is a proper subdomain of S;
\* it matches neither S itself nor a name outside the zone of S.
C29_WildcardIsProperSubdomain ==
    (acm_result.done /\ starts_with(acm_result.candidate, <<42, 46>>))
    => LET dot_S == SubSeq(acm_result.candidate, 2, Len(acm_result.candidate))
       IN  acm_result.matches
           <=> /\ Len(acm_result.target) > Len(dot_S) - 1
               /\ SubSeq(acm_result.target,
                         Len(acm_result.target) - Len(dot_S) + 1,
                         Len(acm_result.target)) = dot_S

====
